---- MODULE Spec2Model ----
(***************************************************************************)
(* Model of the yb blob store: a fixed array of equally sized PIV data     *)
(* objects, each holding one chunk of a linked blob (src/yb/store.py), and *)
(* the store / fetch / remove / list operations that run on it             *)
(* (src/yb/orchestrator.py) against a device that may be ejected in the    *)
(* middle of a sync (src/yb/piv.py, EmulatedPiv).                          *)
(*                                                                         *)
(* The device holds the serialized bytes of every object; every operation  *)
(* decodes them (from_piv_device), runs sanitize on the decoded store, and *)
(* writes dirty objects back in index order.                               *)
(***************************************************************************)
EXTENDS Integers, Sequences, FiniteSets, TLC

(* ------------------------------------------------------------------------ *)
(* Bounds of the model.                                                     *)
(* ------------------------------------------------------------------------ *)

\* Number of objects the store is formatted with (object_count_in_store).
ObjectCount == 3

\* Size in bytes of every object of the store (object_size_in_store).
ObjectSize == 25

\* Ages are capped: an operation that would assign a larger age is not taken.
MaxAge == 5

(* ------------------------------------------------------------------------ *)
(* Constants of the on-card layout (src/yb/constants.py).                   *)
(* ------------------------------------------------------------------------ *)

\* 0xF2ED5F0B as the four bytes it occupies on the card (little endian).
YBLOB_MAGIC == <<11, 95, 237, 242>>
OBJECT_MIN_SIZE == 10
OBJECT_MAX_SIZE == 3052
YBLOB_MAGIC_S == 4
OBJECT_COUNT_IN_STORE_S == 1
STORE_ENCRYPTION_KEY_SLOT_S == 1
OBJECT_AGE_S == 3
CHUNK_POS_IN_BLOB_O == 9
CHUNK_POS_IN_BLOB_S == 1
NEXT_CHUNK_INDEX_IN_STORE_S == 1
BLOB_MODIFICATION_TIME_O == 11
BLOB_MODIFICATION_TIME_S == 4
BLOB_SIZE_S == 3
BLOB_ENCRYPTION_KEY_SLOT_S == 1
BLOB_UNENCRYPTED_SIZE_S == 3
BLOB_NAME_UTF8_LEN_S == 1
BLOB_NAME_O == 23

\* Key slot the store is formatted with (0x9a in the tests).
KeySlot == 154

\* Value of an attribute an Object does not carry (Python: attribute absent).
Absent == 0 - 1

Indexes == 0 .. (ObjectCount - 1)

(* ------------------------------------------------------------------------ *)
(* Bytes.                                                                   *)
(* ------------------------------------------------------------------------ *)

RECURSIVE Pow256(_)
Pow256(n) == IF n = 0 THEN 1 ELSE 256 * Pow256(n - 1)

\* int.to_bytes(n, byteorder="little")
ToBytesLE(v, n) == [i \in 1 .. n |-> (v \div Pow256(i - 1)) % 256]

\* int.from_bytes(b, byteorder="little")
RECURSIVE FromBytesLE(_)
FromBytesLE(b) == IF b = <<>> THEN 0 ELSE Head(b) + 256 * FromBytesLE(Tail(b))

\* ZERO[:n]
Zero(n) == [i \in 1 .. n |-> 0]

\* The payload left as short as it is given.
Ljust_as_kept(b, n) == b

\* bytes.ljust(n, b'\x00')
Ljust(b, n) == IF Len(b) >= n THEN b ELSE b \o Zero(n - Len(b))

\* A slice bound as Python reads it on a string of n bytes: a negative one
\* counts from the end, and it is clamped to 0 .. n.
SliceBound(i, n) ==
    IF i < 0 THEN (IF i + n < 0 THEN 0 ELSE i + n)
    ELSE IF i > n THEN n ELSE i

\* Python slice b[start:end] on a byte string (0-based).
Slice(b, start, end) ==
    LET s == SliceBound(start, Len(b))
        e == SliceBound(end, Len(b))
    IN  IF s >= e THEN <<>> ELSE SubSeq(b, s + 1, e)

(* ------------------------------------------------------------------------ *)
(* Object: constructor, reset, serialize, from_serialization.               *)
(* ------------------------------------------------------------------------ *)

\* Object.__init__ for a free object (object_age = 0): only the payload is
\* kept, every chunk and blob attribute stays absent.
FreeObject(object_size_in_store, chunk_payload, is_dirty) ==
    [ object_age |-> 0,
      chunk_pos_in_blob |-> Absent,
      next_chunk_index_in_store |-> Absent,
      blob_modification_time |-> Absent,
      blob_size |-> Absent,
      blob_encryption_key_slot |-> Absent,
      blob_unencrypted_size |-> Absent,
      blob_name |-> <<>>,
      chunk_payload |-> chunk_payload,
      is_dirty |-> is_dirty ]

\* Object.__init__ for a body chunk (chunk_pos_in_blob != 0).
BodyObject(object_size_in_store, object_age, chunk_pos_in_blob, next_chunk_index_in_store, chunk_payload, is_dirty) ==
    [ object_age |-> object_age,
      chunk_pos_in_blob |-> chunk_pos_in_blob,
      next_chunk_index_in_store |-> next_chunk_index_in_store,
      blob_modification_time |-> Absent,
      blob_size |-> Absent,
      blob_encryption_key_slot |-> Absent,
      blob_unencrypted_size |-> Absent,
      blob_name |-> <<>>,
      chunk_payload |->
          Ljust(chunk_payload, object_size_in_store - BLOB_MODIFICATION_TIME_O),
      is_dirty |-> is_dirty ]

\* Object.__init__ for a head chunk (chunk_pos_in_blob = 0).
HeadObject(object_size_in_store, object_age, next_chunk_index_in_store, blob_modification_time, blob_size, blob_encryption_key_slot, blob_unencrypted_size, blob_name, chunk_payload, is_dirty) ==
    [ object_age |-> object_age,
      chunk_pos_in_blob |-> 0,
      next_chunk_index_in_store |-> next_chunk_index_in_store,
      blob_modification_time |-> blob_modification_time,
      blob_size |-> blob_size,
      blob_encryption_key_slot |-> blob_encryption_key_slot,
      blob_unencrypted_size |-> blob_unencrypted_size,
      blob_name |-> blob_name,
      chunk_payload |->
          Ljust(chunk_payload,
                object_size_in_store - BLOB_NAME_O - Len(blob_name)),
      is_dirty |-> is_dirty ]

\* The reset that leaves is_dirty as it is.
reset_as_clean(obj, object_size_in_store) ==
    [obj EXCEPT !.object_age = 0,
                !.chunk_payload = Zero(object_size_in_store - CHUNK_POS_IN_BLOB_O)]

\* Object.reset
reset(obj, object_size_in_store) ==
    [obj EXCEPT !.object_age = 0,
                !.chunk_payload = Zero(object_size_in_store - CHUNK_POS_IN_BLOB_O),
                !.is_dirty = TRUE]

\* The assertions of Object.serialize: FALSE when serialize raises.
serialize_asserts(obj) ==
    /\ obj.object_age >= 0 /\ obj.object_age < Pow256(OBJECT_AGE_S)
    /\ obj.object_age # 0 =>
         /\ obj.chunk_pos_in_blob >= 0 /\ obj.chunk_pos_in_blob < 256
         /\ obj.next_chunk_index_in_store >= 0
         /\ obj.next_chunk_index_in_store < 256
         /\ obj.chunk_pos_in_blob = 0 =>
              /\ obj.blob_modification_time >= 0
              /\ obj.blob_size > 0 /\ obj.blob_size < Pow256(BLOB_SIZE_S)
              /\ obj.blob_encryption_key_slot >= 0
              /\ obj.blob_encryption_key_slot < 256
              /\ obj.blob_unencrypted_size >= 0
              /\ obj.blob_unencrypted_size < Pow256(BLOB_UNENCRYPTED_SIZE_S)
              /\ Len(obj.blob_name) > 0 /\ Len(obj.blob_name) < 256

\* Object.serialize
serialize(obj, object_count_in_store, store_encryption_key_slot) ==
    LET header == YBLOB_MAGIC
                  \o ToBytesLE(object_count_in_store, OBJECT_COUNT_IN_STORE_S)
                  \o ToBytesLE(store_encryption_key_slot,
                               STORE_ENCRYPTION_KEY_SLOT_S)
                  \o ToBytesLE(obj.object_age, OBJECT_AGE_S)
        chunk == header
                 \o ToBytesLE(obj.chunk_pos_in_blob, CHUNK_POS_IN_BLOB_S)
                 \o ToBytesLE(obj.next_chunk_index_in_store,
                              NEXT_CHUNK_INDEX_IN_STORE_S)
    IN  IF obj.object_age = 0 THEN header \o obj.chunk_payload
        ELSE IF obj.chunk_pos_in_blob # 0 THEN chunk \o obj.chunk_payload
        ELSE chunk
             \o ToBytesLE(obj.blob_modification_time, BLOB_MODIFICATION_TIME_S)
             \o ToBytesLE(obj.blob_size, BLOB_SIZE_S)
             \o ToBytesLE(obj.blob_encryption_key_slot,
                          BLOB_ENCRYPTION_KEY_SLOT_S)
             \o ToBytesLE(obj.blob_unencrypted_size, BLOB_UNENCRYPTED_SIZE_S)
             \o ToBytesLE(Len(obj.blob_name), BLOB_NAME_UTF8_LEN_S)
             \o obj.blob_name
             \o obj.chunk_payload

\* nxt(length) of from_serialization, reading at offset ndx: the bytes read,
\* a length of 0 meaning "the rest".  Callers check nxt_ok first (EOFError).
nxt_ok(serialization, ndx, length) == ndx + length <= Len(serialization)
nxt(serialization, ndx, length) ==
    IF length = 0 THEN Slice(serialization, ndx, Len(serialization))
    ELSE Slice(serialization, ndx, ndx + length)

\* Object.from_serialization.  The result is [err, obj]: err is "" when the
\* object decodes, and names the exception otherwise.  Names are ASCII in this
\* model: a name byte of 128 or more stands for an undecodable name.
from_serialization(yblob_magic, object_size_in_store, object_count_in_store, store_encryption_key_slot, serialization) ==
    LET s == serialization
        Err(e) == [err |-> e, obj |-> FreeObject(object_size_in_store, <<>>, FALSE)]
        Ok(o) == [err |-> "", obj |-> o]
        age == FromBytesLE(nxt(s, 6, OBJECT_AGE_S))
        pos == FromBytesLE(nxt(s, 9, CHUNK_POS_IN_BLOB_S))
        next == FromBytesLE(nxt(s, 10, NEXT_CHUNK_INDEX_IN_STORE_S))
        name_len == FromBytesLE(nxt(s, 22, BLOB_NAME_UTF8_LEN_S))
        name == nxt(s, BLOB_NAME_O, name_len)
        name_end == BLOB_NAME_O + Len(name)
    IN  IF ~nxt_ok(s, 0, YBLOB_MAGIC_S) THEN Err("too short")
        ELSE IF nxt(s, 0, YBLOB_MAGIC_S) # yblob_magic THEN Err("bad magic")
        ELSE IF ~nxt_ok(s, 4, OBJECT_COUNT_IN_STORE_S) THEN Err("too short")
        ELSE IF FromBytesLE(nxt(s, 4, 1)) # object_count_in_store
             THEN Err("bad objects_in_store")
        ELSE IF ~nxt_ok(s, 5, STORE_ENCRYPTION_KEY_SLOT_S) THEN Err("too short")
        ELSE IF FromBytesLE(nxt(s, 5, 1)) # store_encryption_key_slot
             THEN Err("bad store_encryption_key_slot")
        ELSE IF ~nxt_ok(s, 6, OBJECT_AGE_S) THEN Err("too short")
        ELSE IF age = 0
             THEN Ok(FreeObject(object_size_in_store, nxt(s, 9, 0), FALSE))
        ELSE IF ~nxt_ok(s, 9, CHUNK_POS_IN_BLOB_S) THEN Err("too short")
        ELSE IF ~nxt_ok(s, 10, NEXT_CHUNK_INDEX_IN_STORE_S) THEN Err("too short")
        ELSE IF pos # 0
             THEN Ok(BodyObject(object_size_in_store, age, pos, next,
                                nxt(s, BLOB_MODIFICATION_TIME_O, 0), FALSE))
        ELSE IF ~nxt_ok(s, 22, BLOB_NAME_UTF8_LEN_S) THEN Err("too short")
        ELSE IF ~nxt_ok(s, BLOB_NAME_O, name_len) THEN Err("too short")
        ELSE IF \E i \in 1 .. Len(name) : name[i] >= 128
             THEN Err("UnicodeDecodeError")
        ELSE IF Len(name) = 0 \/ Len(name) >= 256 THEN Err("ValueError")
        ELSE Ok(HeadObject(object_size_in_store, age, next,
                           FromBytesLE(nxt(s, 11, BLOB_MODIFICATION_TIME_S)),
                           FromBytesLE(nxt(s, 15, BLOB_SIZE_S)),
                           FromBytesLE(nxt(s, 18, BLOB_ENCRYPTION_KEY_SLOT_S)),
                           FromBytesLE(nxt(s, 19, BLOB_UNENCRYPTED_SIZE_S)),
                           name, nxt(s, name_end, 0), FALSE))

(* ------------------------------------------------------------------------ *)
(* Store: from_piv_device, sanitize, allocation, commit, sync.              *)
(* ------------------------------------------------------------------------ *)

\* The capacity computed as if a body chunk carried the header of a head.
get_payload_capacity_as_head_overhead(object_size_in_store, name) ==
    object_size_in_store - BLOB_NAME_O - Len(name)

\* Store.get_payload_capacity (name = <<>> asks for a body chunk).
get_payload_capacity(object_size_in_store, name) ==
    IF Len(name) = 0 THEN object_size_in_store - BLOB_MODIFICATION_TIME_O
    ELSE object_size_in_store - BLOB_NAME_O - Len(name)

\* The loop reading the objects without the test on their length.
RECURSIVE LoadObjects_as_any_length(_, _, _, _, _)
LoadObjects_as_any_length(dev, i, object_size_in_store, object_count_in_store, slot) ==
    IF i < 0 THEN <<>>
    ELSE Append(LoadObjects_as_any_length(dev, i - 1, object_size_in_store,
                                          object_count_in_store, slot),
                from_serialization(YBLOB_MAGIC, object_size_in_store,
                                   object_count_in_store, slot, dev[i]))

\* The loop of from_piv_device over the objects up to index i: what
\* from_serialization makes of each, in index order.
RECURSIVE LoadObjects(_, _, _, _, _)
LoadObjects(dev, i, object_size_in_store, object_count_in_store, slot) ==
    IF i < 0 THEN <<>>
    ELSE Append(LoadObjects(dev, i - 1, object_size_in_store,
                            object_count_in_store, slot),
                IF Len(dev[i]) # object_size_in_store
                THEN [err |-> "bad object_size_in_store",
                      obj |-> FreeObject(object_size_in_store, <<>>, FALSE)]
                ELSE from_serialization(YBLOB_MAGIC, object_size_in_store,
                                        object_count_in_store, slot, dev[i]))

\* The largest object_age among the objects up to index i.
RECURSIVE MaxAgeOf(_, _)
MaxAgeOf(objects, i) ==
    IF i < 0 THEN 0
    ELSE IF MaxAgeOf(objects, i - 1) < objects[i].object_age
         THEN objects[i].object_age
         ELSE MaxAgeOf(objects, i - 1)

\* The Store from_piv_device returns once its loop has decoded the objects
\* (loaded): err names the first error met, in index order; objects is
\* indexed by object_index_in_store.
loaded_store(size, count, slot, loaded) ==
    LET bad == { k \in 1 .. count : loaded[k].err # "" }
        objs == [i \in 0 .. (count - 1) |-> loaded[i + 1].obj]
    IN  [err |-> IF bad = {} THEN ""
                 ELSE loaded[CHOOSE k \in bad : \A j \in bad : k <= j].err,
         object_size_in_store |-> size,
         object_count_in_store |-> count,
         store_encryption_key_slot |-> slot,
         store_age |-> IF bad = {} THEN MaxAgeOf(objs, count - 1) ELSE 0,
         objects |-> IF bad = {} THEN objs ELSE <<>>]

\* Store.from_piv_device: the store read from the device; err is "" unless
\* an error aborts the load.
from_piv_device(dev) ==
    LET raw_data == dev[0]
        size == Len(raw_data)
        count == FromBytesLE(Slice(raw_data, 4, 5))
        slot == FromBytesLE(Slice(raw_data, 5, 6))
        Failed(e) == [err |-> e, object_size_in_store |-> size,
                      object_count_in_store |-> count,
                      store_encryption_key_slot |-> slot,
                      store_age |-> 0, objects |-> <<>>]
    IN  IF Slice(raw_data, 0, 4) # YBLOB_MAGIC THEN Failed("bad yblob magic")
        ELSE IF ~(OBJECT_MIN_SIZE <= size /\ size <= OBJECT_MAX_SIZE)
             THEN Failed("bad object size")
        ELSE IF \E i \in 0 .. (count - 1) : i \notin DOMAIN dev
             THEN Failed("object not found")
        ELSE loaded_store(size, count, slot,
                          LoadObjects(dev, count - 1, size, count, slot))

\* The chain walk with the test on object_age left out: only the positions
\* of the chunks are compared.
RECURSIVE chain_is_sound_as_positions_only(_, _, _, _, _)
chain_is_sound_as_positions_only(objects, count, cur, age, pos_in_blob) ==
    LET next_index == objects[cur].next_chunk_index_in_store
    IN  IF next_index = cur THEN TRUE
        ELSE IF ~(0 <= next_index /\ next_index < count) THEN FALSE
        ELSE IF objects[next_index].chunk_pos_in_blob # pos_in_blob + 1
             THEN FALSE
        ELSE chain_is_sound_as_positions_only(objects, count, next_index,
                                              age + 1, pos_in_blob + 1)

\* The chain walk of sanitize's first pass, from object cur of the chain of
\* one head: TRUE when the walk reaches the self-pointer, FALSE when it
\* finds the defect that makes sanitize reset the head.
RECURSIVE chain_is_sound(_, _, _, _, _)
chain_is_sound(objects, count, cur, age, pos_in_blob) ==
    LET next_index == objects[cur].next_chunk_index_in_store
    IN  IF next_index = cur THEN TRUE
        ELSE IF ~(0 <= next_index /\ next_index < count) THEN FALSE
        ELSE IF objects[next_index].object_age # age + 1
                \/ objects[next_index].chunk_pos_in_blob # pos_in_blob + 1
             THEN FALSE
        ELSE chain_is_sound(objects, count, next_index, age + 1, pos_in_blob + 1)

\* sanitize, first loop ("Remove head of corrupt blobs"), from index i on.
RECURSIVE remove_corrupt_heads(_, _, _, _)
remove_corrupt_heads(objects, count, size, i) ==
    IF i >= count THEN objects
    ELSE IF objects[i].object_age = 0 \/ objects[i].chunk_pos_in_blob # 0
         THEN remove_corrupt_heads(objects, count, size, i + 1)
    ELSE IF chain_is_sound(objects, count, i, objects[i].object_age, 0)
         THEN remove_corrupt_heads(objects, count, size, i + 1)
    ELSE remove_corrupt_heads([objects EXCEPT ![i] = reset(objects[i], size)],
                              count, size, i + 1)

\* The second loop keeping the older of two heads of a name.
RECURSIVE remove_older_blobs_as_keep_older(_, _, _, _, _)
remove_older_blobs_as_keep_older(objects, count, size, i, blobs) ==
    IF i >= count THEN [objects |-> objects, raised |-> FALSE]
    ELSE IF objects[i].object_age = 0 \/ objects[i].chunk_pos_in_blob # 0
         THEN remove_older_blobs_as_keep_older(objects, count, size, i + 1,
                                               blobs)
    ELSE LET name == objects[i].blob_name
         IN  IF name \notin DOMAIN blobs
             THEN remove_older_blobs_as_keep_older(objects, count, size, i + 1,
                      [n \in DOMAIN blobs \cup {name} |->
                          IF n = name THEN i ELSE blobs[n]])
             ELSE LET alt == blobs[name]
                  IN  IF objects[i].object_age = objects[alt].object_age
                      THEN [objects |-> objects, raised |-> TRUE]
                      ELSE IF objects[i].object_age > objects[alt].object_age
                      THEN remove_older_blobs_as_keep_older(
                               [objects EXCEPT ![i] = reset(objects[i], size)],
                               count, size, i + 1, blobs)
                      ELSE remove_older_blobs_as_keep_older(
                               [objects EXCEPT ![alt] = reset(objects[alt], size)],
                               count, size, i + 1, blobs)

\* sanitize, second loop ("Remove older of identically named blobs"), from
\* index i on.  blobs is the dict of the loop: name -> index of the object
\* recorded for the name.  raised is TRUE once the assertion on equal ages
\* has failed; the loop stops there.
RECURSIVE remove_older_blobs(_, _, _, _, _)
remove_older_blobs(objects, count, size, i, blobs) ==
    IF i >= count THEN [objects |-> objects, raised |-> FALSE]
    ELSE IF objects[i].object_age = 0 \/ objects[i].chunk_pos_in_blob # 0
         THEN remove_older_blobs(objects, count, size, i + 1, blobs)
    ELSE LET name == objects[i].blob_name
         IN  IF name \notin DOMAIN blobs
             THEN remove_older_blobs(objects, count, size, i + 1,
                      [n \in DOMAIN blobs \cup {name} |->
                          IF n = name THEN i ELSE blobs[n]])
             ELSE LET alt == blobs[name]
                  IN  IF objects[i].object_age = objects[alt].object_age
                      THEN [objects |-> objects, raised |-> TRUE]
                      ELSE IF objects[i].object_age < objects[alt].object_age
                      THEN remove_older_blobs(
                               [objects EXCEPT ![i] = reset(objects[i], size)],
                               count, size, i + 1, blobs)
                      ELSE remove_older_blobs(
                               [objects EXCEPT ![alt] = reset(objects[alt], size)],
                               count, size, i + 1, blobs)

\* The indices marked by the walk of sanitize's third pass from object cur.
RECURSIVE chain_indexes(_, _)
chain_indexes(objects, cur) ==
    LET next_index == objects[cur].next_chunk_index_in_store
    IN  IF next_index = cur THEN {cur}
        ELSE {cur} \cup chain_indexes(objects, next_index)

\* is_reachable of sanitize's third pass, as the set of indices marked True.
is_reachable(objects, count) ==
    UNION { chain_indexes(objects, h) :
              h \in { i \in 0 .. (count - 1) :
                        /\ objects[i].object_age # 0
                        /\ objects[i].chunk_pos_in_blob = 0 } }

\* The third pass leaving every object as it is.
remove_unreachable_as_kept(objects, count, size) ==
    [i \in 0 .. (count - 1) |-> objects[i]]

\* sanitize, third pass ("Remove unreachable objects").
remove_unreachable(objects, count, size) ==
    LET reachable == is_reachable(objects, count)
    IN  [i \in 0 .. (count - 1) |->
            IF objects[i].object_age # 0 /\ i \notin reachable
            THEN reset(objects[i], size) ELSE objects[i]]

\* The end of sanitize, pass2 being the outcome of its second pass: the
\* third pass runs unless the assertion of the second has failed.
swept(store, pass2) ==
    IF pass2.raised
    THEN [store |-> [store EXCEPT !.objects = pass2.objects], raised |-> TRUE]
    ELSE [store |-> [store EXCEPT !.objects =
                        remove_unreachable(pass2.objects,
                                           store.object_count_in_store,
                                           store.object_size_in_store)],
          raised |-> FALSE]

\* Store.sanitize.  raised is TRUE when the assertion of the second pass
\* fails; the store is then left as the passes before it made it.
sanitize(store) ==
    swept(store,
          remove_older_blobs(
              remove_corrupt_heads(store.objects, store.object_count_in_store,
                                   store.object_size_in_store, 0),
              store.object_count_in_store, store.object_size_in_store, 0,
              <<>>))

\* The search returning the highest free index instead of the lowest.
get_free_object_index_as_highest(objects, count) ==
    LET free == { i \in 0 .. (count - 1) : objects[i].object_age = 0 }
    IN  IF free = {} THEN Absent
        ELSE CHOOSE i \in free : \A j \in free : i >= j

\* Store.get_free_object_index: the index it returns, Absent when it raises
\* StopIteration.  The caller marks the object with reserve.
get_free_object_index(objects, count) ==
    LET free == { i \in 0 .. (count - 1) : objects[i].object_age = 0 }
    IN  IF free = {} THEN Absent
        ELSE CHOOSE i \in free : \A j \in free : i <= j

\* "obj.object_age = 1  # Marking the object as no longer free"
reserve(objects, index) == [objects EXCEPT ![index].object_age = 1]

\* The commit that leaves store_age as it is.
commit_object_as_same_age(store, index, obj) ==
    [store EXCEPT !.objects = [@ EXCEPT ![index] = obj]]

\* Store.commit_object
commit_object(store, index, obj) ==
    [store EXCEPT !.store_age = IF @ < obj.object_age THEN obj.object_age ELSE @,
                  !.objects = [@ EXCEPT ![index] = obj]]

\* The dirty objects of a store, as the set of their indices.
dirty_indexes(store) ==
    { i \in 0 .. (store.object_count_in_store - 1) : store.objects[i].is_dirty }

\* The loop of sync visiting the objects from the last index down to the
\* first: step i handles index object_count_in_store - 1 - i.
RECURSIVE sync_from_as_descending(_, _, _, _, _)
sync_from_as_descending(store, dev, i, budget, order) ==
    LET index == store.object_count_in_store - 1 - i
    IN  IF i >= store.object_count_in_store
        THEN [dev |-> dev, raised |-> "", order |-> order, store |-> store]
        ELSE IF ~store.objects[index].is_dirty
             THEN sync_from_as_descending(store, dev, i + 1, budget, order)
        ELSE IF ~serialize_asserts(store.objects[index])
             THEN [dev |-> dev, raised |-> "AssertionError", order |-> order,
                   store |-> store]
        ELSE IF budget = 0
             THEN [dev |-> dev, raised |-> "EjectionError", order |-> order,
                   store |-> store]
        ELSE sync_from_as_descending(
                 store,
                 [dev EXCEPT ![index] = serialize(store.objects[index],
                                                  store.object_count_in_store,
                                                  store.store_encryption_key_slot)],
                 i + 1, budget - 1, Append(order, index))

\* Store.sync from index i on, against EmulatedPiv.write_object: dirty
\* objects are written in index order.  budget is the number of writes the
\* device accepts before it is ejected, order the indices written so far.
\* raised names the exception that ends the sync ("" when it returns);
\* store is the Store as the sync leaves it: the loop assigns nothing to it.
RECURSIVE sync_from(_, _, _, _, _)
sync_from(store, dev, i, budget, order) ==
    IF i >= store.object_count_in_store
    THEN [dev |-> dev, raised |-> "", order |-> order, store |-> store]
    ELSE IF ~store.objects[i].is_dirty
         THEN sync_from(store, dev, i + 1, budget, order)
    ELSE IF ~serialize_asserts(store.objects[i])
         THEN [dev |-> dev, raised |-> "AssertionError", order |-> order,
               store |-> store]
    ELSE IF budget = 0
         THEN [dev |-> dev, raised |-> "EjectionError", order |-> order,
               store |-> store]
    ELSE sync_from(store,
                   [dev EXCEPT ![i] = serialize(store.objects[i],
                                                store.object_count_in_store,
                                                store.store_encryption_key_slot)],
                   i + 1, budget - 1, Append(order, i))

\* Store.sync
sync(store, dev, i, budget) == sync_from(store, dev, i, budget, <<>>)

(* ------------------------------------------------------------------------ *)
(* Orchestrator: store_blob, fetch_blob, remove_blob, list_blobs.           *)
(* ------------------------------------------------------------------------ *)

(* ------------------------------------------------------------------------ *)
(* Crypto: the hybrid envelope.  The primitives of the cryptography library *)
(* and of the device are modelled by their algebra on bytes: ECDH gives both *)
(* sides the same secret, AES-CBC is a keyed chained substitution that      *)
(* decryption inverts, PKCS7 pads to whole blocks.                          *)
(* ------------------------------------------------------------------------ *)

PUB_KEY_LEN == 65
IV_LEN == 16

\* The block size of PKCS7(128) and of AES, in bits.
PKCS7_BLOCK_BITS == 128

\* The PIV slots perform_ecdh_with_yubikey knows (0x9a, 0x9c, 0x9d, 0x9e,
\* 0x82 .. 0x95).
PivSlots == { 154, 156, 157, 158 } \cup (130 .. 149)

\* pin = None
NoPin == "None"
Pin == "123456"

\* The private scalar of the key pair the device holds in a slot.
PrivateKeyIn(slot) == (slot % 250) + 1

\* private_key.public_key(): the point d.G, named by d.
public_key(private) == private

\* ECDH: the secret both sides derive, d1.d2.G.
ECDH(private, peer_public_key) == (private * peer_public_key) % 251

\* HKDF(SHA256, info=b'hybrid-encryption').derive(shared_secret), as one byte.
HKDF(shared_secret) == (shared_secret * 7 + 13) % 256

\* Crypto.get_public_key_from_yubikey: the public key of the slot's pair.
get_public_key_from_yubikey(slot) == public_key(PrivateKeyIn(slot))

\* int.to_bytes(32, 'big') of a coordinate below 256.
Coordinate(v) == [i \in 1 .. 32 |-> IF i = 32 THEN v ELSE 0]

\* int.from_bytes(b, 'big')
RECURSIVE FromBytesBE(_)
FromBytesBE(b) ==
    IF b = <<>> THEN 0
    ELSE 256 * FromBytesBE(SubSeq(b, 1, Len(b) - 1)) + b[Len(b)]

\* public_bytes(X962, UncompressedPoint): 0x04, X, Y.  The point named d
\* has coordinates (d, d).
public_bytes(public) == <<4>> \o Coordinate(public) \o Coordinate(public)

\* PKCS7(128).padder()
pkcs7_pad(data) ==
    LET block == PKCS7_BLOCK_BITS \div 8
        n == block - (Len(data) % block)
    IN  data \o [i \in 1 .. n |-> n]

\* The unpadder returning the data as they are.
pkcs7_unpad_as_kept(data) == [ok |-> TRUE, data |-> data]

\* PKCS7(128).unpadder(): ok is FALSE when it raises ValueError.
pkcs7_unpad(data) ==
    LET block == PKCS7_BLOCK_BITS \div 8
        n == data[Len(data)]
    IN  IF Len(data) = 0 \/ Len(data) % block # 0
        THEN [ok |-> FALSE, data |-> <<>>]
        ELSE IF n < 1 \/ n > block
                \/ \E i \in (Len(data) - n + 1) .. Len(data) : data[i] # n
             THEN [ok |-> FALSE, data |-> <<>>]
        ELSE [ok |-> TRUE, data |-> SubSeq(data, 1, Len(data) - n)]

\* What the iv brings into the chain.
IvByte(iv) == FromBytesLE(<<iv[1]>>) + Len(iv)

\* Cipher(AES(key), CBC(iv)).encryptor(): each byte is mixed with the key
\* and the byte before it.
RECURSIVE aes_cbc_encrypt(_, _, _)
aes_cbc_encrypt(key, previous, data) ==
    IF data = <<>> THEN <<>>
    ELSE LET c == (Head(data) + key + previous) % 256
         IN  <<c>> \o aes_cbc_encrypt(key, c, Tail(data))

\* Cipher(AES(key), CBC(iv)).decryptor()
aes_cbc_decrypt(key, previous, data) ==
    [i \in 1 .. Len(data) |->
        (data[i] + 512 - key - (IF i = 1 THEN previous ELSE data[i - 1])) % 256]

\* Crypto.hybrid_encrypt; rnd holds its random draws, the ephemeral private
\* key (eph) and the byte the iv is made of (iv).
hybrid_encrypt(blob, peer_public_key, rnd) ==
    LET derived_key == HKDF(ECDH(rnd.eph, peer_public_key))
        iv == [i \in 1 .. IV_LEN |-> rnd.iv]
    IN  public_bytes(public_key(rnd.eph)) \o iv
        \o aes_cbc_encrypt(derived_key, IvByte(iv), pkcs7_pad(blob))

\* Crypto.hybrid_decrypt with the device's key in the slot: raised names
\* the exception, "" when there is none.
hybrid_decrypt(slot, encrypted_blob) ==
    LET ephemeral_pub == Slice(encrypted_blob, 0, PUB_KEY_LEN)
        iv == Slice(encrypted_blob, PUB_KEY_LEN, PUB_KEY_LEN + IV_LEN)
        ciphertext == Slice(encrypted_blob, PUB_KEY_LEN + IV_LEN,
                            Len(encrypted_blob))
        x == FromBytesBE(Slice(ephemeral_pub, 1, 33))
        y == FromBytesBE(Slice(ephemeral_pub, 33, Len(ephemeral_pub)))
        derived_key == HKDF(ECDH(PrivateKeyIn(slot), x))
        plain == pkcs7_unpad(aes_cbc_decrypt(derived_key, IvByte(iv),
                                             ciphertext))
    IN  IF Len(ephemeral_pub) < PUB_KEY_LEN \/ x # y \/ x = 0
        THEN [raised |-> "ValueError", data |-> <<>>]
        ELSE IF slot \notin PivSlots THEN [raised |-> "KeyError", data |-> <<>>]
        ELSE IF Len(iv) # IV_LEN THEN [raised |-> "ValueError", data |-> <<>>]
        ELSE IF ~plain.ok THEN [raised |-> "ValueError", data |-> <<>>]
        ELSE [raised |-> "", data |-> plain.data]

\* "Load store and sanitize", the first step of every operation.  The
\* operations below take its result as their argument ls.
\* "store.sanitize()" on the store an operation has loaded; raised names the
\* exception that ends the operation there ("" when there is none).
sanitized(loaded) ==
    IF loaded.err # ""
    THEN [raised |-> loaded.err, store |-> loaded, loaded |-> loaded.objects]
    ELSE LET clean == sanitize(loaded)
         IN  [raised |-> IF clean.raised THEN "AssertionError" ELSE "",
              store |-> clean.store, loaded |-> loaded.objects]

load_and_sanitize(dev) == sanitized(from_piv_device(dev))

\* The allocation loop allocating no body chunk at all.
allocate_chunks_as_head_only(objects, count, indexes, pending_len, capacity_body) ==
    [ok |-> TRUE, indexes |-> indexes]

\* The loop of store_blob that allocates the body chunks ("while pending_len
\* > 0"), indexes holding the indices allocated so far.  ok is FALSE on
\* StopIteration.
RECURSIVE allocate_chunks(_, _, _, _, _)
allocate_chunks(objects, count, indexes, pending_len, capacity_body) ==
    IF pending_len <= 0
    THEN [ok |-> TRUE, indexes |-> indexes]
    ELSE LET index == get_free_object_index(objects, count)
         IN  IF index = Absent THEN [ok |-> FALSE, indexes |-> indexes]
             ELSE allocate_chunks(reserve(objects, index), count,
                                  Append(indexes, index),
                                  pending_len - capacity_body, capacity_body)

\* The loop of store_blob that creates and commits the chunk objects, from
\* position chunk_pos_in_blob on; end is the payload offset reached so far.
RECURSIVE commit_chunks(_, _, _, _, _, _, _, _, _)
commit_chunks(store, indexes, chunk_pos_in_blob, end, name, payload, slot, unencrypted_size, mtime) ==
    IF chunk_pos_in_blob >= Len(indexes) THEN store
    ELSE LET index_in_store == indexes[chunk_pos_in_blob + 1]
             next_chunk_index_in_store ==
                 IF chunk_pos_in_blob = Len(indexes) - 1 THEN index_in_store
                 ELSE indexes[chunk_pos_in_blob + 2]
             size == IF chunk_pos_in_blob = 0
                     THEN get_payload_capacity(store.object_size_in_store, name)
                     ELSE get_payload_capacity(store.object_size_in_store, <<>>)
             chunk_payload == Slice(payload, end, end + size)
             obj == IF chunk_pos_in_blob = 0
                    THEN HeadObject(store.object_size_in_store,
                                    store.store_age + 1,
                                    next_chunk_index_in_store, mtime,
                                    Len(payload), slot, unencrypted_size,
                                    name, chunk_payload, TRUE)
                    ELSE BodyObject(store.object_size_in_store,
                                    store.store_age + 1, chunk_pos_in_blob,
                                    next_chunk_index_in_store, chunk_payload,
                                    TRUE)
         IN  commit_chunks(commit_object(store, index_in_store, obj), indexes,
                           chunk_pos_in_blob + 1, end + size, name, payload,
                           slot, unencrypted_size, mtime)

\* store_blob up to its call of Store.sync: the indices it has allocated (ok
\* is FALSE on StopIteration) and the store in memory once the chunk objects
\* are committed.
built_store(ls, name, payload, mtime) ==
    LET store == ls.store
        head == get_free_object_index(store.objects,
                                      store.object_count_in_store)
        alloc == IF head = Absent THEN [ok |-> FALSE, indexes |-> <<>>]
                 ELSE allocate_chunks(reserve(store.objects, head),
                          store.object_count_in_store, <<head>>,
                          Len(payload)
                            - get_payload_capacity(store.object_size_in_store,
                                                   name),
                          get_payload_capacity(store.object_size_in_store,
                                               <<>>))
    IN  [ok |-> alloc.ok, indexes |-> alloc.indexes,
         store |-> IF alloc.ok
                   THEN commit_chunks(store, alloc.indexes, 0, 0, name, payload,
                                      0, Len(payload), mtime)
                   ELSE store]

\* What a call of Store.sync has done, for the record of the operation:
\* order lists the indices written, in the order of the writes; chain is the
\* chain the operation has built or reset, head first; dirty is the set of
\* indices whose is_dirty flag is set when sync starts, dirty_after when it
\* is over; mutated is the set of indices whose object differs from the one
\* loaded from the device.
SyncInfo(ls, store, synced, chain) ==
    [order |-> synced.order,
     chain |-> chain,
     dirty |-> dirty_indexes(store),
     dirty_after |-> dirty_indexes(synced.store),
     mutated |-> { i \in 0 .. (store.object_count_in_store - 1) :
                     [store.objects[i] EXCEPT !.is_dirty = FALSE]
                       # ls.loaded[i] }]

\* The record of an operation that has not called Store.sync.
NoSync ==
    [order |-> <<>>, chain |-> <<>>, dirty |-> {}, dirty_after |-> {},
     mutated |-> {}]

\* "if len(chunk_payload) > capacity: raise ValueError" of Object.__init__,
\* for one of the chunk objects store_blob creates at these indexes.
chunk_too_large(object_size_in_store, indexes, name, payload) ==
    LET capacity_head == get_payload_capacity(object_size_in_store, name)
        capacity_body == get_payload_capacity(object_size_in_store, <<>>)
        start(p) == IF p = 0 THEN 0 ELSE capacity_head + (p - 1) * capacity_body
        size(p) == IF p = 0 THEN capacity_head ELSE capacity_body
    IN  \E p \in 0 .. (Len(indexes) - 1) :
            Len(Slice(payload, start(p), start(p) + size(p))) > size(p)

\* store_blob from "Calculate chunks needed" on: payload is the payload to
\* store (encrypted or not), slot the blob_encryption_key_slot of the head.
\* ret is "True" or "False", or "" when the call raises, raised then naming
\* the exception.  writes counts the objects the sync would write had the
\* device stayed connected.
store_payload(ls, dev, name, payload, slot, unencrypted_size, mtime, budget) ==
    LET store == ls.store
        capacity_head == get_payload_capacity(store.object_size_in_store, name)
        capacity_body == get_payload_capacity(store.object_size_in_store, <<>>)
        head == get_free_object_index(store.objects,
                                      store.object_count_in_store)
        alloc == IF head = Absent THEN [ok |-> FALSE, indexes |-> <<>>]
                 ELSE allocate_chunks(reserve(store.objects, head),
                                      store.object_count_in_store, <<head>>,
                                      Len(payload) - capacity_head,
                                      capacity_body)
        built == commit_chunks(store, alloc.indexes, 0, 0, name, payload, slot,
                               unencrypted_size, mtime)
        synced == sync(built, dev, 0, budget)
        Result(r, e, d, n, a, io) ==
            [ret |-> r, raised |-> e, dev |-> d, writes |-> n, store_age |-> a,
             io |-> io]
    IN  IF Len(name) = 0 \/ Len(name) > 255
        THEN Result("", "ValueError", dev, 0, 0, NoSync)
        ELSE IF ls.raised # "" THEN Result("", ls.raised, dev, 0, 0, NoSync)
        ELSE IF ~alloc.ok
             THEN Result("False", "", dev, 0, store.store_age, NoSync)
        ELSE IF chunk_too_large(store.object_size_in_store, alloc.indexes,
                                name, payload)
             THEN Result("", "ValueError", dev, 0, store.store_age, NoSync)
        ELSE IF synced.raised # ""
             THEN Result("", synced.raised, synced.dev,
                         Cardinality(dirty_indexes(built)), built.store_age,
                         SyncInfo(ls, built, synced, alloc.indexes))
        ELSE Result("True", "", synced.dev,
                    Cardinality(dirty_indexes(built)), built.store_age,
                    SyncInfo(ls, built, synced, alloc.indexes))

\* store_blob(name, payload, encrypted=False)
store_blob(ls, dev, name, payload, mtime, budget) ==
    store_payload(ls, dev, name, payload, 0, Len(payload), mtime, budget)

\* store_blob(name, payload, encrypted=True), rnd being the random draws of
\* hybrid_encrypt.
store_blob_encrypted(ls, dev, name, payload, rnd, mtime, budget) ==
    store_payload(ls, dev, name,
                  hybrid_encrypt(payload,
                      get_public_key_from_yubikey(
                          ls.store.store_encryption_key_slot),
                      rnd),
                  ls.store.store_encryption_key_slot, Len(payload), mtime,
                  budget)

\* str.encode('utf-8') of one character, given as its code point.
Utf8Char(c) ==
    IF c < 128 THEN <<c>>
    ELSE IF c < 2048 THEN << 192 + (c \div 64), 128 + (c % 64) >>
    ELSE IF c < 65536
         THEN << 224 + (c \div 4096), 128 + ((c \div 64) % 64), 128 + (c % 64) >>
    ELSE << 240 + (c \div 262144), 128 + ((c \div 4096) % 64),
            128 + ((c \div 64) % 64), 128 + (c % 64) >>

\* The encoding that gives every character one byte.
encode_utf8_as_one_byte_each(chars) == [i \in 1 .. Len(chars) |-> chars[i] % 128]

\* name.encode('utf-8') of a str given as its code points.
RECURSIVE encode_utf8(_)
encode_utf8(chars) ==
    IF chars = <<>> THEN <<>>
    ELSE IF Len(chars) = 1 THEN Utf8Char(chars[1])
    ELSE encode_utf8(SubSeq(chars, 1, Len(chars) \div 2))
         \o encode_utf8(SubSeq(chars, (Len(chars) \div 2) + 1, Len(chars)))

\* store_blob(name, payload) for a name given as a str: len(name) counts its
\* characters, Store.get_payload_capacity raises StringTooLargeError on more
\* than 255 UTF-8 bytes.
store_blob_named(ls, dev, chars, payload, mtime, budget) ==
    LET Rejected(e) == [ret |-> "", raised |-> e, dev |-> dev, writes |-> 0,
                        store_age |-> 0, io |-> NoSync]
    IN  IF Len(chars) = 0 \/ Len(chars) > 255 THEN Rejected("ValueError")
        ELSE IF ls.raised # "" THEN Rejected(ls.raised)
        ELSE IF Len(encode_utf8(chars)) > 255
             THEN Rejected("StringTooLargeError")
        ELSE store_payload(ls, dev, encode_utf8(chars), payload, 0,
                           Len(payload), mtime, budget)

\* The search taking the first live head whatever its name.
find_blob_as_any_head(store, name) ==
    LET found == { i \in 0 .. (store.object_count_in_store - 1) :
                     /\ store.objects[i].object_age # 0
                     /\ store.objects[i].chunk_pos_in_blob = 0 }
    IN  IF found = {} THEN Absent
        ELSE CHOOSE i \in found : \A j \in found : i <= j

\* The first live head named name, in index order (the search loop of
\* fetch_blob and remove_blob); Absent when there is none.
find_blob(store, name) ==
    LET found == { i \in 0 .. (store.object_count_in_store - 1) :
                     /\ store.objects[i].object_age # 0
                     /\ store.objects[i].chunk_pos_in_blob = 0
                     /\ store.objects[i].blob_name = name }
    IN  IF found = {} THEN Absent
        ELSE CHOOSE i \in found : \A j \in found : i <= j

\* The chunk payloads of fetch_blob's walk from object cur, concatenated.
RECURSIVE join_chunks(_, _)
join_chunks(objects, cur) ==
    IF objects[cur].next_chunk_index_in_store = cur
    THEN objects[cur].chunk_payload
    ELSE objects[cur].chunk_payload
         \o join_chunks(objects, objects[cur].next_chunk_index_in_store)

\* What fetch_blob finds: found is FALSE for None.
None == [found |-> FALSE, payload |-> <<>>]

\* fetch_blob(name, pin): pin is NoPin for None.
fetch_blob_pin(ls, name, pin) ==
    LET blob == find_blob(ls.store, name)
        payload == Slice(join_chunks(ls.store.objects, blob), 0,
                         ls.store.objects[blob].blob_size)
        plain == hybrid_decrypt(ls.store.store_encryption_key_slot, payload)
    IN  IF Len(name) = 0 \/ Len(name) > 255
        THEN [raised |-> "ValueError", ret |-> None]
        ELSE IF ls.raised # "" THEN [raised |-> ls.raised, ret |-> None]
        ELSE IF blob = Absent THEN [raised |-> "", ret |-> None]
        ELSE IF ls.store.objects[blob].blob_encryption_key_slot = 0
             THEN [raised |-> "", ret |-> [found |-> TRUE, payload |-> payload]]
        ELSE IF pin = NoPin THEN [raised |-> "RuntimeError", ret |-> None]
        ELSE IF plain.raised # "" THEN [raised |-> plain.raised, ret |-> None]
        ELSE [raised |-> "", ret |-> [found |-> TRUE, payload |-> plain.data]]

\* fetch_blob(name), the pin left to its default.
fetch_blob(ls, name) == fetch_blob_pin(ls, name, NoPin)

\* The reset loop resetting nothing.
reset_chain_as_kept(objects, size, cur) == objects

\* The reset loop resetting every object of the store.
reset_chain_as_everything(objects, size, cur) ==
    [i \in DOMAIN objects |-> reset(objects[i], size)]

\* The loop of remove_blob that resets the chunks of a blob, from object cur.
RECURSIVE reset_chain(_, _, _)
reset_chain(objects, size, cur) ==
    LET next_index == objects[cur].next_chunk_index_in_store
        after == [objects EXCEPT ![cur] = reset(objects[cur], size)]
    IN  IF next_index = cur THEN after
        ELSE reset_chain(after, size, next_index)

\* The indices remove_blob's loop resets, in the order it visits them.
RECURSIVE remove_walk(_, _)
remove_walk(objects, cur) ==
    IF objects[cur].next_chunk_index_in_store = cur THEN <<cur>>
    ELSE <<cur>> \o remove_walk(objects, objects[cur].next_chunk_index_in_store)

\* remove_blob, syncing the sanitized store even when no blob has the name.
remove_blob_as_always_synced(ls, dev, name, budget) ==
    LET store == ls.store
        blob == find_blob(store, name)
        removed == IF blob = Absent THEN store
                   ELSE [store EXCEPT !.objects =
                            reset_chain(store.objects,
                                        store.object_size_in_store, blob)]
        synced == sync(removed, dev, 0, budget)
        Result(r, e, d, n, io) ==
            [ret |-> r, raised |-> e, dev |-> d, writes |-> n, io |-> io]
    IN  IF Len(name) = 0 \/ Len(name) > 255
        THEN Result("", "ValueError", dev, 0, NoSync)
        ELSE IF ls.raised # "" THEN Result("", ls.raised, dev, 0, NoSync)
        ELSE IF synced.raised # ""
             THEN Result("", synced.raised, synced.dev,
                         Cardinality(dirty_indexes(removed)),
                         SyncInfo(ls, removed, synced, <<>>))
        ELSE Result(IF blob = Absent THEN "False" ELSE "True", "", synced.dev,
                    Cardinality(dirty_indexes(removed)),
                    SyncInfo(ls, removed, synced, <<>>))

\* remove_blob
remove_blob(ls, dev, name, budget) ==
    LET store == ls.store
        blob == find_blob(store, name)
        removed == [store EXCEPT !.objects =
                       reset_chain(store.objects, store.object_size_in_store,
                                   blob)]
        synced == sync(removed, dev, 0, budget)
        chain == remove_walk(store.objects, blob)
        Result(r, e, d, n, io) ==
            [ret |-> r, raised |-> e, dev |-> d, writes |-> n, io |-> io]
    IN  IF Len(name) = 0 \/ Len(name) > 255
        THEN Result("", "ValueError", dev, 0, NoSync)
        ELSE IF ls.raised # "" THEN Result("", ls.raised, dev, 0, NoSync)
        ELSE IF blob = Absent THEN Result("False", "", dev, 0, NoSync)
        ELSE IF synced.raised # ""
             THEN Result("", synced.raised, synced.dev,
                         Cardinality(dirty_indexes(removed)),
                         SyncInfo(ls, removed, synced, chain))
        ELSE Result("True", "", synced.dev, Cardinality(dirty_indexes(removed)),
                    SyncInfo(ls, removed, synced, chain))

\* a <= b for two names, as Python compares str (names are ASCII here).
RECURSIVE name_le(_, _)
name_le(a, b) ==
    IF a = <<>> THEN TRUE
    ELSE IF b = <<>> THEN FALSE
    ELSE IF Head(a) # Head(b) THEN Head(a) < Head(b)
    ELSE name_le(Tail(a), Tail(b))

\* sorted(blobs, key=blob_name) on a list of head indices; sorted is stable.
RECURSIVE sorted_by_name(_, _)
sorted_by_name(objects, blobs) ==
    IF blobs = <<>> THEN <<>>
    ELSE LET last == blobs[Len(blobs)]
             front == sorted_by_name(objects, SubSeq(blobs, 1, Len(blobs) - 1))
             keep == { k \in 1 .. Len(front) :
                         name_le(objects[front[k]].blob_name,
                                 objects[last].blob_name) }
             n == Cardinality(keep)
         IN  SubSeq(front, 1, n) \o <<last>> \o SubSeq(front, n + 1, Len(front))

\* The live heads of a store in index order ("Collect all head chunks").
RECURSIVE head_chunks(_, _)
head_chunks(store, i) ==
    IF i < 0 THEN <<>>
    ELSE IF store.objects[i].object_age # 0
            /\ store.objects[i].chunk_pos_in_blob = 0
         THEN Append(head_chunks(store, i - 1), i)
         ELSE head_chunks(store, i - 1)

\* The count that never follows the chain.
chunk_count_as_one(objects, cur) == 1

\* chunk_count of list_blobs: the length of the chain from object cur.
RECURSIVE chunk_count(_, _)
chunk_count(objects, cur) ==
    IF objects[cur].next_chunk_index_in_store = cur THEN 1
    ELSE 1 + chunk_count(objects, objects[cur].next_chunk_index_in_store)

\* list_blobs: ret lists (name, size, is_encrypted, mtime, chunk_count).
list_blobs(ls) ==
    LET objects == ls.store.objects
        blobs == sorted_by_name(objects,
                     head_chunks(ls.store, ls.store.object_count_in_store - 1))
    IN  IF ls.raised # "" THEN [raised |-> ls.raised, ret |-> <<>>]
        ELSE [raised |-> "",
              ret |-> [k \in 1 .. Len(blobs) |->
                          << objects[blobs[k]].blob_name,
                             objects[blobs[k]].blob_unencrypted_size,
                             objects[blobs[k]].blob_encryption_key_slot # 0,
                             objects[blobs[k]].blob_modification_time,
                             chunk_count(objects, blobs[k]) >>]]

(* ------------------------------------------------------------------------ *)
(* The state machine: one emulated device, the operations of the            *)
(* orchestrator run against it one at a time, ejections during writes.      *)
(* ------------------------------------------------------------------------ *)

\* Blob names ("a", "b") as their UTF-8 bytes.
Names == { <<97>>, <<98>> }

\* A payload of bytes b that needs a second chunk under a one-byte name.
LongPayload(b) ==
    [i \in 1 .. (get_payload_capacity(ObjectSize, <<97>>) + 1) |-> b]

\* A payload of two chunks that ends with a NUL byte.
NulPayload(b) ==
    [i \in 1 .. Len(LongPayload(b)) |-> IF i = Len(LongPayload(b)) THEN 0 ELSE b]

\* Payloads handed to store_blob: the empty one, one of one chunk, two of
\* two chunks, the second ending with a NUL byte.
Payloads == { <<>>, <<1>>, LongPayload(2), NulPayload(3) }

\* Values of int(time.time()) seen by store_blob.
Times == { 1 }

VARIABLES
    device,       \* EmulatedDevice.objects: object index -> bytes on the card
    is_ejected,   \* EmulatedPiv.is_ejected
    toy_fs,       \* ToyFilesystem.files of the tests: name -> payload
    interrupted,  \* TRUE once a sync has been cut short by the device
    last          \* the last operation: its arguments, outcome and context

vars == << device, is_ejected, toy_fs, interrupted, last >>

\* What each name fetches from a loaded and sanitized store.
fetch_all(ls) == [n \in Names |-> fetch_blob(ls, n).ret]

\* The names list_blobs reports, as a list.
listed_names(ls) ==
    LET l == list_blobs(ls).ret IN [k \in 1 .. Len(l) |-> l[k][1]]

Range(f) == { f[x] : x \in DOMAIN f }

\* ToyFilesystem.fetch
toy_fetch(files, name) ==
    IF name \in DOMAIN files THEN [found |-> TRUE, payload |-> files[name]]
    ELSE None

\* ToyFilesystem.store
toy_store(files, name, payload) ==
    [n \in DOMAIN files \cup {name} |-> IF n = name THEN payload ELSE files[n]]

\* ToyFilesystem.remove (the files left)
toy_remove(files, name) == [n \in DOMAIN files \ {name} |-> files[n]]

\* ToyFilesystem.list: the names in sorted order.
RECURSIVE sorted_names(_)
sorted_names(names) ==
    IF names = {} THEN <<>>
    ELSE LET least == CHOOSE n \in names : \A m \in names : name_le(n, m)
         IN  <<least>> \o sorted_names(names \ {least})

\* The record kept of an operation.  written counts the device writes it
\* has made and io tells what its sync has done; before and names_before are
\* what fetch_blob and list_blobs answer on the device the operation starts
\* from (its store being ls); expected is the answer of the ToyFilesystem.
Op(op, name, payload, ret, raised, fetched, listed, expected, ls, io) ==
    [ op |-> op, name |-> name, payload |-> payload,
      ret |-> ret, raised |-> raised, written |-> Len(io.order), io |-> io,
      fetched |-> fetched, listed |-> listed, expected |-> expected,
      before |-> fetch_all(ls),
      names_before |-> Range(listed_names(ls)) ]

\* The device as format leaves it: every object free.
Formatted ==
    [i \in Indexes |->
        serialize(FreeObject(ObjectSize, Zero(ObjectSize - CHUNK_POS_IN_BLOB_O),
                             TRUE),
                  ObjectCount, KeySlot)]

Init ==
    /\ device = Formatted
    /\ is_ejected = FALSE
    /\ toy_fs = <<>>
    /\ interrupted = FALSE
    /\ last = Op("format", <<>>, <<>>, "", "", None, <<>>, <<>>,
                 load_and_sanitize(Formatted), NoSync)

\* The bookkeeping common to store_blob and remove_blob: the device after
\* the call, the ejection it may have caused, the tests' ToyFilesystem
\* (followed as long as no sync has been interrupted).
Written(res, files) ==
    /\ device' = res.dev
    /\ is_ejected' = (is_ejected \/ res.raised = "EjectionError")
    /\ interrupted' = (interrupted \/ res.raised = "EjectionError")
    /\ toy_fs' = IF interrupted' THEN <<>>
                 ELSE IF res.ret = "True" THEN files ELSE toy_fs

\* orchestrator.store_blob(name, payload); the device is ejected after
\* budget writes when the sync has more than budget objects to write.  The
\* tests reconnect an ejected device before the next operation.
StoreBlob ==
    /\ ~is_ejected
    /\ \E ls \in { load_and_sanitize(device) } :
        \E name \in Names, payload \in Payloads, mtime \in Times,
           budget \in 0 .. ObjectCount :
            \E res \in { store_blob(ls, device, name, payload, mtime,
                                    budget) } :
                /\ budget <= res.writes
                /\ res.store_age <= MaxAge
                /\ Written(res, toy_store(toy_fs, name, payload))
                /\ last' = Op("store", name, payload, res.ret, res.raised,
                              None, <<>>, <<>>, ls, res.io)

\* orchestrator.remove_blob(name), with the same ejection.
RemoveBlob ==
    /\ ~is_ejected
    /\ \E ls \in { load_and_sanitize(device) } :
        \E name \in Names, budget \in 0 .. ObjectCount :
            \E res \in { remove_blob(ls, device, name, budget) } :
                /\ budget <= res.writes
                /\ Written(res, toy_remove(toy_fs, name))
                /\ last' = Op("remove", name, <<>>, res.ret, res.raised,
                              None, <<>>,
                              IF name \in DOMAIN toy_fs THEN <<"True">>
                              ELSE <<"False">>,
                              ls, res.io)

\* orchestrator.fetch_blob(name)
FetchBlob ==
    /\ ~is_ejected
    /\ \E ls \in { load_and_sanitize(device) } :
        \E name \in Names :
            \E res \in { fetch_blob(ls, name) } :
                /\ last' = Op("fetch", name, <<>>, "", res.raised,
                              res.ret, <<>>, toy_fetch(toy_fs, name), ls,
                              NoSync)
                /\ UNCHANGED << device, is_ejected, toy_fs, interrupted >>

\* orchestrator.list_blobs()
ListBlobs ==
    /\ ~is_ejected
    /\ \E ls \in { load_and_sanitize(device) } :
      \E res \in { list_blobs(ls) } :
        /\ last' = Op("list", <<>>, <<>>, "", res.raised, None, res.ret,
                      sorted_names(DOMAIN toy_fs), ls, NoSync)
        /\ UNCHANGED << device, is_ejected, toy_fs, interrupted >>

\* EmulatedPiv.reconnect
Reconnect ==
    /\ is_ejected
    /\ is_ejected' = FALSE
    /\ UNCHANGED << device, toy_fs, interrupted, last >>

Next == StoreBlob \/ RemoveBlob \/ FetchBlob \/ ListBlobs \/ Reconnect

Spec == Init /\ [][Next]_vars

\* The bytes of the head at index h of the device after a corruption of the
\* given kind: a name that is not valid UTF-8, a successor index outside
\* [0, N), or a successor j that does not continue the head's sequence.
corrupted(dev, h, kind, j) ==
    IF kind = "name" THEN [dev EXCEPT ![h][BLOB_NAME_O + 1] = 255]
    ELSE IF kind = "successor"
         THEN [dev EXCEPT ![h][CHUNK_POS_IN_BLOB_O + CHUNK_POS_IN_BLOB_S + 1] =
                              ObjectCount]
    ELSE [dev EXCEPT ![h][CHUNK_POS_IN_BLOB_O + CHUNK_POS_IN_BLOB_S + 1] = j]

\* The device corrupts the head of a well-formed blob (a head that is live
\* in the sanitized store) while no operation runs; it does so once, on a
\* device no sync was interrupted on.
CorruptHead ==
    /\ ~is_ejected
    /\ ~interrupted
    /\ \E ls \in { load_and_sanitize(device) } :
        /\ ls.raised = ""
        /\ \E h \in { i \in Indexes : /\ ls.store.objects[i].object_age # 0
                                       /\ ls.store.objects[i].chunk_pos_in_blob = 0 },
              kind \in {"name", "successor", "skew"}, j \in Indexes :
            /\ kind # "skew" => j = 0
            /\ kind = "skew" =>
                 /\ j # h
                 /\ ~(/\ ls.loaded[j].object_age
                           = ls.store.objects[h].object_age + 1
                      /\ ls.loaded[j].chunk_pos_in_blob = 1)
            /\ device' = corrupted(device, h, kind, j)
            /\ last' = Op("corrupt", ls.store.objects[h].blob_name, <<>>, kind,
                          "", None, <<>>, <<>>, ls,
                          [NoSync EXCEPT !.chain = remove_walk(ls.store.objects, h)])
            /\ interrupted' = TRUE
            /\ toy_fs' = <<>>
            /\ UNCHANGED is_ejected

NextCorrupt == Next \/ CorruptHead

\* The operations on a device that may corrupt the heads it holds.
SpecCorrupt == Init /\ [][NextCorrupt]_vars

(* ------------------------------------------------------------------------ *)
(* Crafted devices: every object holds a well-formed record, whatever the   *)
(* chains these records make.                                               *)
(* ------------------------------------------------------------------------ *)

\* The largest object_age of a crafted record.
CraftAge == 2

\* The well-formed records of a crafted device: the free record, body
\* chunks and heads of every age, position, name and next index, the next
\* index ObjectCount lying outside the store.
CraftedRecords ==
    { FreeObject(ObjectSize, Zero(ObjectSize - CHUNK_POS_IN_BLOB_O), FALSE) }
    \cup { BodyObject(ObjectSize, age, pos, next, <<7>>, FALSE) :
             age \in 1 .. CraftAge, pos \in 1 .. 2, next \in 0 .. ObjectCount }
    \cup { HeadObject(ObjectSize, age, next, 1, 1, 0, 1, name, <<7>>, FALSE) :
             age \in 1 .. CraftAge, next \in 0 .. ObjectCount, name \in Names }

\* A device whose objects are the serializations of crafted records.
InitCrafted ==
    /\ \E records \in [Indexes -> CraftedRecords] :
           device = [i \in Indexes |-> serialize(records[i], ObjectCount, KeySlot)]
    /\ is_ejected = FALSE
    /\ toy_fs = <<>>
    /\ interrupted = TRUE
    /\ last = [op |-> "craft", raised |-> "", loaded |-> <<>>, objects |-> <<>>]

\* "Load store and sanitize" on a crafted device: what from_piv_device has
\* loaded, what sanitize has made of it and the exception raised, if any.
LoadAndSanitize ==
    /\ last.op = "craft"
    /\ \E ls \in { load_and_sanitize(device) } :
           last' = [op |-> "sanitize", raised |-> ls.raised,
                    loaded |-> ls.loaded, objects |-> ls.store.objects]
    /\ UNCHANGED << device, is_ejected, toy_fs, interrupted >>

NextCrafted == LoadAndSanitize

SpecCrafted == InitCrafted /\ [][NextCrafted]_vars

(* ------------------------------------------------------------------------ *)
(* Damaged devices: one object has a defect in its store-wide header or in  *)
(* its length.                                                              *)
(* ------------------------------------------------------------------------ *)

\* The defects: a wrong magic, an object count one less or one more, another
\* key slot, a byte less or more, and lengths just outside
\* OBJECT_MIN_SIZE .. OBJECT_MAX_SIZE.
DamageKinds == {"magic", "fewer", "more", "slot", "short", "long", "tiny", "huge"}

\* The device dev with the defect kind in its object i.
damaged(dev, i, kind) ==
    LET raw == dev[i]
    IN  [dev EXCEPT ![i] =
            IF kind = "magic" THEN [raw EXCEPT ![1] = (@ + 1) % 256]
            ELSE IF kind = "fewer" THEN [raw EXCEPT ![5] = @ - 1]
            ELSE IF kind = "more" THEN [raw EXCEPT ![5] = @ + 1]
            ELSE IF kind = "slot" THEN [raw EXCEPT ![6] = (@ + 1) % 256]
            ELSE IF kind = "short" THEN SubSeq(raw, 1, Len(raw) - 1)
            ELSE IF kind = "long" THEN Append(raw, 0)
            ELSE IF kind = "tiny" THEN SubSeq(raw, 1, OBJECT_MIN_SIZE - 1)
            ELSE Ljust(raw, OBJECT_MAX_SIZE + 1)]

\* The devices a defect strikes: the formatted one and those one store_blob
\* has written.
BaseDevices ==
    { Formatted }
    \cup { store_blob(load_and_sanitize(Formatted), Formatted, name, payload, 1,
                      ObjectCount).dev :
             name \in Names, payload \in Payloads \ { <<>> } }

InitDamaged ==
    /\ \E dev \in BaseDevices, i \in Indexes, kind \in DamageKinds :
           /\ kind \in {"tiny", "huge"} => i = 0
           /\ device = damaged(dev, i, kind)
    /\ is_ejected = FALSE
    /\ toy_fs = <<>>
    /\ interrupted = TRUE
    /\ last = Op("damage", <<>>, <<>>, "", "", None, <<>>, <<>>,
                 load_and_sanitize(Formatted), NoSync)

NextDamaged == StoreBlob \/ RemoveBlob \/ FetchBlob \/ ListBlobs

\* The operations on a damaged device.
SpecDamaged == InitDamaged /\ [][NextDamaged]_vars


(* ------------------------------------------------------------------------ *)
(* The seed scenario: a store of 5 objects of 64 bytes, key slot 0x82.      *)
(* ------------------------------------------------------------------------ *)

ExampleCount == 5
ExampleSize == 64
ExampleKeySlot == 130

\* The largest store_age the scenario lets store_blob reach.
ExampleMaxAge == 6

\* b"hello"
Hello == << 104, 101, 108, 108, 111 >>

\* b"x" * n
Xs(n) == [i \in 1 .. n |-> 120]

\* The payloads of the scenario.
ExamplePayloads == { Hello, Xs(199), Xs(200) }

\* b"secret"
Secret == << 115, 101, 99, 114, 101, 116 >>

\* The payloads stored encrypted: b"secret", and one of a whole AES block.
ExampleSecrets == { Secret, Xs(PKCS7_BLOCK_BITS \div 8) }

\* What hybrid_encrypt may draw: the ephemeral key and the iv.
ExampleRandom == { [eph |-> 2, iv |-> 5], [eph |-> 3, iv |-> 9] }

\* The device as format leaves it in the scenario.
FormattedExample ==
    [i \in 0 .. (ExampleCount - 1) |->
        serialize(FreeObject(ExampleSize,
                             Zero(ExampleSize - CHUNK_POS_IN_BLOB_O), TRUE),
                  ExampleCount, ExampleKeySlot)]

InitExample ==
    /\ device = FormattedExample
    /\ is_ejected = FALSE
    /\ toy_fs = <<>>
    /\ interrupted = FALSE
    /\ last = Op("format", <<>>, <<>>, "", "", None, <<>>, <<>>,
                 load_and_sanitize(FormattedExample), NoSync)

\* store_blob(name, payload) on the device of the scenario, never ejected.
ExampleStore ==
    \E ls \in { load_and_sanitize(device) } :
        \E name \in Names, payload \in ExamplePayloads, mtime \in Times :
            \E res \in { store_blob(ls, device, name, payload, mtime,
                                    ExampleCount) } :
                /\ res.store_age <= ExampleMaxAge
                /\ Written(res, toy_store(toy_fs, name, payload))
                /\ last' = Op("store", name, payload, res.ret, res.raised,
                              None, <<>>, <<>>, ls, res.io)

\* remove_blob(name) on the device of the scenario, never ejected.
ExampleRemove ==
    \E ls \in { load_and_sanitize(device) } :
        \E name \in Names :
            \E res \in { remove_blob(ls, device, name, ExampleCount) } :
                /\ Written(res, toy_remove(toy_fs, name))
                /\ last' = Op("remove", name, <<>>, res.ret, res.raised,
                              None, <<>>, <<>>, ls, res.io)

\* store_blob(name, payload, encrypted=True) on the device of the scenario.
ExampleStoreEncrypted ==
    \E ls \in { load_and_sanitize(device) } :
        \E name \in Names, payload \in ExampleSecrets, mtime \in Times :
            \E rnd \in ExampleRandom :
                \E res \in { store_blob_encrypted(ls, device, name, payload,
                                                  rnd, mtime, ExampleCount) } :
                    /\ res.store_age <= ExampleMaxAge
                    /\ Written(res, toy_store(toy_fs, name, payload))
                    /\ last' = Op("store_encrypted", name, payload, res.ret,
                                  res.raised, None, <<>>, <<>>, ls, res.io)

\* fetch_blob(name, pin) with the PIN, or fetch_blob(name) without.
ExampleFetch ==
    \E ls \in { load_and_sanitize(device) } :
        \E name \in Names, pin \in { NoPin, Pin } :
            \E res \in { fetch_blob_pin(ls, name, pin) } :
                /\ last' = Op(IF pin = NoPin THEN "fetch_no_pin" ELSE "fetch",
                              name, <<>>, "", res.raised, res.ret, <<>>,
                              toy_fetch(toy_fs, name), ls, NoSync)
                /\ UNCHANGED << device, is_ejected, toy_fs, interrupted >>

\* list_blobs() on the device of the scenario.
ExampleList ==
    \E ls \in { load_and_sanitize(device) } :
        \E res \in { list_blobs(ls) } :
            /\ last' = Op("list", <<>>, <<>>, "", res.raised, None, res.ret,
                          sorted_names(DOMAIN toy_fs), ls, NoSync)
            /\ UNCHANGED << device, is_ejected, toy_fs, interrupted >>

NextExample ==
    \/ ExampleStore
    \/ ExampleRemove
    \/ ExampleStoreEncrypted
    \/ ExampleFetch
    \/ ExampleList

SpecExample == InitExample /\ [][NextExample]_vars

(* ------------------------------------------------------------------------ *)
(* Capacities: stores formatted at every object size, one operation each.   *)
(* ------------------------------------------------------------------------ *)

\* The object sizes format accepts.
CapacitySizes == OBJECT_MIN_SIZE .. OBJECT_MAX_SIZE

\* A name of n UTF-8 bytes ("a" * n).
NameOf(n) == [i \in 1 .. n |-> 97]

\* The name lengths the operations are run with.
CapacityNameLengths == { 1, 2, 12, 255 }

\* The payloads the stores are run with.
CapacityPayloads == { <<1>>, <<1, 2, 3>> }

\* The device as format leaves it with objects of that size.
FormattedAt(size) ==
    [i \in Indexes |->
        serialize(FreeObject(size, Zero(size - CHUNK_POS_IN_BLOB_O), TRUE),
                  ObjectCount, KeySlot)]

\* The record kept of an operation on such a store.
CapacityOp(op, size, name, payload, ret, raised) ==
    [ op |-> op, size |-> size, name |-> name, payload |-> payload,
      head |-> get_payload_capacity(size, name),
      body |-> get_payload_capacity(size, <<>>),
      ret |-> ret, raised |-> raised ]

InitCapacity ==
    \E size \in CapacitySizes :
        /\ device = FormattedAt(size)
        /\ is_ejected = FALSE
        /\ toy_fs = <<>>
        /\ interrupted = FALSE
        /\ last = CapacityOp("format", size, <<>>, <<>>, "", "")

\* Store.get_payload_capacity(name) on the freshly loaded store.
GetPayloadCapacity ==
    /\ last.op = "format"
    /\ \E loaded \in { from_piv_device(device) } :
        \E n \in CapacityNameLengths :
            /\ last' = CapacityOp("capacity", loaded.object_size_in_store,
                                  NameOf(n), <<>>, "", "")
            /\ UNCHANGED << device, is_ejected, toy_fs, interrupted >>

\* store_blob(name, payload) on the freshly formatted store.
CapacityStore ==
    /\ last.op = "format"
    /\ \E ls \in { load_and_sanitize(device) } :
        \E n \in CapacityNameLengths, payload \in CapacityPayloads :
            \E res \in { store_blob(ls, device, NameOf(n), payload, 1,
                                    ObjectCount) } :
                /\ Written(res, toy_store(toy_fs, NameOf(n), payload))
                /\ last' = CapacityOp("store", ls.store.object_size_in_store,
                                      NameOf(n), payload, res.ret, res.raised)

\* n times the character of code point c.
Chars(c, n) == [i \in 1 .. n |-> c]

\* The names store_blob is given as str: "", "a" * 1, 255, 256 and 300,
\* "\u00e9" * 128 and 255 (2 bytes each), "\u20ac" * 86 (3 bytes each).
CapacityNames ==
    { Chars(97, 0), Chars(97, 1), Chars(97, 255), Chars(97, 256),
      Chars(97, 300), Chars(233, 128), Chars(233, 255), Chars(8364, 86) }

\* store_blob(name, b"\x01") on the freshly formatted store, the name a str.
CapacityStoreNamed ==
    /\ last.op = "format"
    /\ \E ls \in { load_and_sanitize(device) } :
        \E chars \in CapacityNames :
            \E res \in { store_blob_named(ls, device, chars, <<1>>, 1,
                                          ObjectCount) } :
                /\ Written(res, toy_fs)
                /\ last' = [op |-> "store_named",
                            size |-> ls.store.object_size_in_store,
                            chars |-> chars, payload |-> <<1>>,
                            ret |-> res.ret, raised |-> res.raised,
                            written |-> Len(res.io.order)]

NextCapacity == GetPayloadCapacity \/ CapacityStore \/ CapacityStoreNamed

SpecCapacity == InitCapacity /\ [][NextCapacity]_vars

(* ------------------------------------------------------------------------ *)
(* Properties.                                                              *)
(* ------------------------------------------------------------------------ *)

\* The live heads of a store: object_age != 0 and chunk_pos_in_blob = 0.
LiveHeads(store) ==
    { i \in 0 .. (store.object_count_in_store - 1) :
        /\ store.objects[i].object_age # 0
        /\ store.objects[i].chunk_pos_in_blob = 0 }

\* What fetch_blob(name) answers on the current device.
Fetched(name) == fetch_blob(load_and_sanitize(device), name).ret

\* The last operation was cut short in its sync by the device.
Interrupted(op) ==
    /\ last.op = op
    /\ last.raised = "EjectionError"

\* C1: after a store_blob(name, P') interrupted in its sync, whatever the
\* number of writes made, fetch_blob(name) on the reloaded and sanitized
\* store answers either P' or what it answered before the operation (the
\* old payload or not-found).
C1_InterruptedStoreOldOrNew ==
    Interrupted("store") =>
        Fetched(last.name) \in
            { [found |-> TRUE, payload |-> last.payload],
              last.before[last.name] }

\* An update of a stored name to a different payload was interrupted after
\* at least one write and the device has been reconnected: the name still
\* fetches the old payload.
C1_Witness ==
    /\ Interrupted("store")
    /\ ~is_ejected
    /\ last.written >= 1
    /\ last.before[last.name].found
    /\ last.before[last.name].payload # last.payload
    /\ Fetched(last.name) = last.before[last.name]

\* C2: after a remove_blob(name) interrupted in its sync, fetch_blob(name)
\* on the reloaded and sanitized store answers either what it answered
\* before the operation or not-found.
C2_InterruptedRemoveOldOrNone ==
    Interrupted("remove") =>
        Fetched(last.name) \in { last.before[last.name], None }

\* C3: in the store observed after load_from_device + sanitize, in every
\* device state operations and ejections can leave, no two live heads carry
\* the same blob name.
C3_NoTwoHeadsShareAName ==
    \A ls \in { load_and_sanitize(device) } :
        \A i, j \in LiveHeads(ls.store) :
            i # j => ls.store.objects[i].blob_name # ls.store.objects[j].blob_name

\* The chain-valid heads of a loaded store: the live heads the first pass of
\* sanitize leaves alone.
ValidHeads(loaded) ==
    { h \in LiveHeads(loaded) :
        chain_is_sound(loaded.objects, loaded.object_count_in_store, h,
                       loaded.objects[h].object_age, 0) }

\* The payload of the blob of head h in a store.
BlobOf(store, h) ==
    [found |-> TRUE,
     payload |-> Slice(join_chunks(store.objects, h), 0,
                       store.objects[h].blob_size)]

\* C4: when several chain-valid heads of the loaded store carry the same
\* name, sanitize keeps the one with the largest object_age and resets every
\* other head of the group, and fetch_blob(name) returns the payload of the
\* head with the largest age.
C4_SanitizeKeepsLargestAge ==
    \A loaded \in { from_piv_device(device) } :
        \A ls \in { sanitized(loaded) } :
            \A n \in Names :
                \A group \in { { h \in ValidHeads(loaded) :
                                   loaded.objects[h].blob_name = n } } :
                    Cardinality(group) >= 2 =>
                        \A h \in group :
                            IF \A g \in group : loaded.objects[g].object_age
                                                  <= loaded.objects[h].object_age
                            THEN /\ ls.store.objects[h].object_age # 0
                                 /\ fetch_blob(ls, n).ret = BlobOf(loaded, h)
                            ELSE ls.store.objects[h].object_age = 0

\* C5: sanitize is idempotent: run on the store it has already sanitized, it
\* resets no further record and leaves every object as it is.
C5_SanitizeIdempotent ==
    \A ls \in { load_and_sanitize(device) } :
        ls.raised = "" =>
            sanitize(ls.store).store.objects = ls.store.objects

\* The indices of the chain of head h, in chain order.
RECURSIVE chain_seq(_, _)
chain_seq(objects, cur) ==
    IF objects[cur].next_chunk_index_in_store = cur THEN <<cur>>
    ELSE <<cur>> \o chain_seq(objects, objects[cur].next_chunk_index_in_store)

C7_ChainAgesAndPositions ==
    \A ls \in { load_and_sanitize(device) } :
        \A h \in LiveHeads(ls.store) :
            \A chain \in { chain_seq(ls.store.objects, h) } :
                \A k \in 1 .. Len(chain) :
                    /\ ls.store.objects[chain[k]].object_age
                         = ls.store.objects[h].object_age + k - 1
                    /\ ls.store.objects[chain[k]].chunk_pos_in_blob = k - 1

\* A chain of two chunks is live after sanitize, its head written into a
\* store that already had records (age above 1), while the device holds
\* another head whose chain the first pass rejects or a stale record.
C7_Witness ==
    \A loaded \in { from_piv_device(device) } :
        \A ls \in { sanitized(loaded) } :
            /\ ls.raised = ""
            /\ \E h \in LiveHeads(ls.store) :
                /\ Len(chain_seq(ls.store.objects, h)) = 2
                /\ ls.store.objects[h].object_age > 1
            /\ \E i \in 0 .. (loaded.object_count_in_store - 1) :
                /\ loaded.objects[i].object_age # 0
                /\ ls.store.objects[i].object_age = 0

\* The payload capacity of the chain of head h: payload_capacity(name) for
\* the head plus payload_capacity('') for each body chunk.
chain_capacity(store, h) ==
    get_payload_capacity(store.object_size_in_store, store.objects[h].blob_name)
    + (Len(chain_seq(store.objects, h)) - 1)
      * get_payload_capacity(store.object_size_in_store, <<>>)

C9_RefinesToyFilesystem ==
    ~interrupted =>
        \A ls \in { load_and_sanitize(device) } :
            /\ \A n \in Names : fetch_blob(ls, n).ret = toy_fetch(toy_fs, n)
            /\ listed_names(ls) = sorted_names(DOMAIN toy_fs)
            /\ last.op = "fetch" => last.fetched = last.expected
            /\ last.op = "list" =>
                 [k \in 1 .. Len(last.listed) |-> last.listed[k][1]]
                   = last.expected
            /\ last.op = "remove" => <<last.ret>> = last.expected
            /\ (last.op = "store" /\ last.ret = "False") =>
                 fetch_all(ls) = last.before

\* No sync has been interrupted, the map holds a name, and a store_blob has
\* just returned False because the store is full.
C9_Witness ==
    /\ ~interrupted
    /\ last.op = "store"
    /\ last.ret = "False"
    /\ DOMAIN toy_fs # {}

\* C10: after an ejection during store_blob or remove_blob, in any sequence
\* of operations and ejections, the set of names list_blobs reports is the
\* set reported before the operation or the set the completed operation
\* would have left.
C10_NamesBeforeOrAfter ==
    \A ls \in { load_and_sanitize(device) } :
        /\ Interrupted("store") =>
             Range(listed_names(ls)) \in
                 { last.names_before, last.names_before \cup {last.name} }
        /\ Interrupted("remove") =>
             Range(listed_names(ls)) \in
                 { last.names_before, last.names_before \ {last.name} }

\* A store_blob of a new name was ejected after its head was written, a
\* sync had been interrupted before it, and the device has been
\* reconnected: list_blobs reports the new name next to the old ones.
C10_Witness ==
    /\ Interrupted("store")
    /\ ~is_ejected
    /\ last.names_before # {}
    /\ last.name \notin last.names_before
    /\ Range(listed_names(load_and_sanitize(device)))
         = last.names_before \cup {last.name}

\* The last operation is a store_blob that ran to its end: it neither hit
\* the ejection of the device nor reported the store as full.
StoreDone ==
    /\ last.op = "store"
    /\ last.raised # "EjectionError"
    /\ last.ret # "False"

\* C11: store_blob(name, P) followed by fetch_blob(name) returns exactly P,
\* trailing NUL bytes included, for every payload the free records can hold,
\* the empty payload included.
C11_StoreThenFetch ==
    StoreDone =>
        Fetched(last.name) = [found |-> TRUE, payload |-> last.payload]

\* The step is a store_blob or a remove_blob of the name the store_blob
\* before it has stored with success.
AfterStore(op) ==
    /\ last.op = "store"
    /\ last.ret = "True"
    /\ last'.op = op
    /\ last'.name = last.name
    /\ last'.raised = ""

\* C12: after store_blob(name, P) and then store_blob(name, P') have both
\* succeeded, fetch_blob(name) returns P', and in the sanitized store one
\* head carries the name, no older chain of the name being left.
C12_SecondStoreWins ==
    [][(AfterStore("store") /\ last'.ret = "True") =>
        \A ls \in { load_and_sanitize(device') } :
            /\ fetch_blob(ls, last'.name).ret
                 = [found |-> TRUE, payload |-> last'.payload]
            /\ Cardinality({ h \in LiveHeads(ls.store) :
                               ls.store.objects[h].blob_name = last'.name })
                 = 1]_vars

\* A store_blob of two chunks has succeeded on a name that held another
\* payload, the older head is still on the device for sanitize to discard,
\* and the name fetches the new payload.
C12_Witness ==
    /\ last.op = "store" /\ last.ret = "True"
    /\ last.before[last.name].found
    /\ last.before[last.name].payload # last.payload
    /\ Len(last.io.chain) = 2
    /\ Cardinality({ h \in LiveHeads(from_piv_device(device)) :
                       from_piv_device(device).objects[h].blob_name
                         = last.name }) = 2
    /\ Fetched(last.name) = [found |-> TRUE, payload |-> last.payload]

\* C13: after store_blob(name, P) followed by remove_blob(name), the remove
\* returns True, fetch_blob of the name returns None and list_blobs does not
\* list the name.
C13_StoreRemoveNotFound ==
    [][AfterStore("remove") =>
        \A ls \in { load_and_sanitize(device') } :
            /\ last'.ret = "True"
            /\ fetch_blob(ls, last'.name).ret = None
            /\ last'.name \notin Range(listed_names(ls))]_vars

\* A blob of two chunks has been removed, its name fetches nothing, and
\* another name stays listed.
C13_Witness ==
    /\ last.op = "remove" /\ last.ret = "True"
    /\ last.before[last.name].found
    /\ Len(last.io.chain) = 2
    /\ Fetched(last.name) = None
    /\ Range(listed_names(load_and_sanitize(device))) # {}

\* The number of records store_blob allocates for a payload: the head, and
\* body chunks as long as bytes are pending.
RECURSIVE chunks_needed(_, _, _)
chunks_needed(pending_len, capacity_body, taken) ==
    IF pending_len <= 0 THEN taken
    ELSE chunks_needed(pending_len - capacity_body, capacity_body, taken + 1)

\* The free records of the sanitized store ls cover the payload under name.
Covered(ls, name, payload) ==
    chunks_needed(Len(payload)
                    - get_payload_capacity(ls.store.object_size_in_store, name),
                  get_payload_capacity(ls.store.object_size_in_store, <<>>), 1)
      <= Cardinality({ i \in 0 .. (ls.store.object_count_in_store - 1) :
                         ls.store.objects[i].object_age = 0 })

\* C14: a store_blob whose payload the free records of the sanitized store
\* cannot cover returns False, and a store_blob that returns False has
\* issued no write: every object of the device is as it was before the call.
C14_StoreFullWritesNothing ==
    [][(~is_ejected /\ last'.op = "store") =>
        /\ ~Covered(load_and_sanitize(device), last'.name, last'.payload)
             => last'.ret = "False"
        /\ last'.ret = "False" =>
             /\ device' = device
             /\ last'.io.order = <<>>]_vars

\* A store_blob of two chunks has returned False on a device whose sanitized
\* store has one free record left: the head index was taken in memory, the
\* body index could not be.
C14_Witness ==
    /\ last.op = "store"
    /\ last.ret = "False"
    /\ Len(last.payload) > get_payload_capacity(ObjectSize, last.name)
    /\ \A ls \in { load_and_sanitize(device) } :
         Cardinality({ i \in Indexes : ls.store.objects[i].object_age = 0 }) = 1

\* The places of index i in the sequence of writes order.
WrittenAt(order, i) == { k \in 1 .. Len(order) : order[k] = i }

\* C15: in the sync of a store_blob of several chunks every body chunk of
\* the new chain is written before its head (tail first, head last): when
\* the head is written, every body chunk has been written before it.
C15_TailFirstHeadLast ==
    (last.op = "store" /\ Len(last.io.chain) >= 2) =>
        \A k \in WrittenAt(last.io.order, last.io.chain[1]) :
            \A b \in 2 .. Len(last.io.chain) :
                \E j \in WrittenAt(last.io.order, last.io.chain[b]) : j < k

\* C16: in the sync of a remove_blob of a blob of several chunks the reset
\* head is written before any reset body chunk of the blob.
C16_RemoveHeadFirst ==
    (last.op = "remove" /\ Len(last.io.chain) >= 2) =>
        \A b \in 2 .. Len(last.io.chain) :
            \A k \in WrittenAt(last.io.order, last.io.chain[b]) :
                \E j \in WrittenAt(last.io.order, last.io.chain[1]) : j < k

\* A remove_blob of a blob of two chunks has written the reset head and the
\* reset body, after the reset of a stale record sanitize had found.
C16_Witness ==
    /\ last.op = "remove"
    /\ last.ret = "True"
    /\ Len(last.io.chain) = 2
    /\ Len(last.io.order) = 3
    /\ WrittenAt(last.io.order, last.io.chain[2]) # {}

\* C17: within one sync the writes are issued in strictly increasing index
\* order.
C17_WritesInIndexOrder ==
    \A k \in 1 .. (Len(last.io.order) - 1) :
        last.io.order[k] < last.io.order[k + 1]

\* A sync has written every object of the store: the chunks of a new blob
\* and the reset of a record sanitize had reset.
C17_Witness ==
    /\ last.op = "store"
    /\ last.ret = "True"
    /\ Len(last.io.order) = ObjectCount
    /\ last.io.dirty # { last.io.chain[k] : k \in 1 .. Len(last.io.chain) }

\* C18: sync writes only records whose is_dirty flag is set: the device
\* content of every record that is not dirty is left as it was, every
\* record mutated since the load (committed, or reset by remove_blob or by
\* sanitize) is dirty, and a sync that returns has written every dirty one.
C18_SyncWritesDirtyOnly ==
    [][(~is_ejected /\ last'.op \in {"store", "remove"}) =>
        /\ Range(last'.io.order) \subseteq last'.io.dirty
        /\ \A i \in Indexes : i \notin last'.io.dirty => device'[i] = device[i]
        /\ last'.io.mutated \subseteq last'.io.dirty
        /\ last'.raised = "" => Range(last'.io.order) = last'.io.dirty]_vars

\* A remove_blob has returned True after a sync that wrote the reset head
\* of the blob and a stale record sanitize had reset, and left alone a
\* record that was not dirty.
C18_Witness ==
    /\ last.op = "remove"
    /\ last.ret = "True"
    /\ last.io.mutated = last.io.dirty
    /\ Range(last.io.order) = last.io.dirty
    /\ last.io.dirty \ Range(last.io.chain) # {}
    /\ Indexes \ last.io.dirty # {}
    /\ \E i \in Indexes \ last.io.dirty :
         from_piv_device(device).objects[i].object_age # 0

\* C19: a sync that returns clears the dirty bit of every record it wrote:
\* after it no record of the Store is dirty, so that a second sync on the
\* same Store writes nothing.
C19_SyncClearsDirty ==
    (last.op \in {"store", "remove"} /\ last.raised = "") =>
        last.io.dirty_after = {}

\* C20: a corrupted head (a name that is not valid UTF-8, a successor index
\* outside [0, N), a successor that does not continue the head's sequence)
\* does not abort the load: sanitize resets the head, the sweep resets its
\* body chunks, and every blob of another name fetches what it did.
C20_CorruptHeadDropped ==
    last.op = "corrupt" =>
        \A ls \in { load_and_sanitize(device) } :
            /\ ls.raised = ""
            /\ \A i \in Range(last.io.chain) : ls.store.objects[i].object_age = 0
            /\ \A n \in Names \ {last.name} :
                 fetch_blob(ls, n).ret = last.before[n]

\* C21: sanitize never raises: on every store loaded from a device of
\* well-formed records it ends normally, and every object it leaves is the
\* loaded one or the loaded one reset.
C21_SanitizeNeverRaises ==
    last.op = "sanitize" =>
        /\ last.raised = ""
        /\ \A i \in Indexes :
             \/ last.objects[i] = last.loaded[i]
             \/ last.objects[i] = reset(last.loaded[i], ObjectSize)

\* The defects the load must refuse, read from the bytes of the device:
\* object 0 without the magic or of a length outside 10 .. 3052, or an
\* object 1 .. N-1 whose magic, object count, key slot or length is not
\* that of object 0 (N being the object count of object 0).
HeaderDefect(dev) ==
    \/ Slice(dev[0], 0, YBLOB_MAGIC_S) # YBLOB_MAGIC
    \/ Len(dev[0]) < 10
    \/ Len(dev[0]) > 3052
    \/ \E i \in 1 .. (dev[0][5] - 1) :
         /\ i \in DOMAIN dev
         /\ \/ Slice(dev[i], 0, 6) # Slice(dev[0], 0, 6)
            \/ Len(dev[i]) # Len(dev[0])

\* C22: on a device with such a defect from_piv_device fails and returns no
\* Store, and the operation that called it raises and leaves every object
\* of the device as it was.
C22_BadHeaderIsFatal ==
    [][HeaderDefect(device) =>
          /\ from_piv_device(device).err # ""
          /\ from_piv_device(device).objects = <<>>
          /\ last'.raised = from_piv_device(device).err
          /\ last'.io.order = <<>>
          /\ device' = device]_vars

\* An operation has run on a device with a defect of every kind of place:
\* here a store_blob on a device whose object 1 has another length.
C22_Witness ==
    /\ HeaderDefect(device)
    /\ Len(device[1]) # Len(device[0])
    /\ last.op = "store"
    /\ last.raised # ""

\* The fields a record of its kind carries are those of another record.
SameRecord(a, b) ==
    /\ a.object_age = b.object_age
    /\ a.chunk_payload = b.chunk_payload
    /\ a.object_age # 0 =>
         /\ a.chunk_pos_in_blob = b.chunk_pos_in_blob
         /\ a.next_chunk_index_in_store = b.next_chunk_index_in_store
         /\ a.chunk_pos_in_blob = 0 =>
              /\ a.blob_modification_time = b.blob_modification_time
              /\ a.blob_size = b.blob_size
              /\ a.blob_encryption_key_slot = b.blob_encryption_key_slot
              /\ a.blob_unencrypted_size = b.blob_unencrypted_size
              /\ a.blob_name = b.blob_name

\* serialize accepts the record, from_serialization reads the same record
\* back from its bytes, and serializing that one gives the same bytes, as
\* many as the store's object size.
RoundTrips(obj, store) ==
    /\ serialize_asserts(obj)
    /\ \A bytes \in { serialize(obj, store.object_count_in_store,
                                store.store_encryption_key_slot) } :
         /\ Len(bytes) = store.object_size_in_store
         /\ \A back \in { from_serialization(YBLOB_MAGIC,
                              store.object_size_in_store,
                              store.object_count_in_store,
                              store.store_encryption_key_slot, bytes) } :
              /\ back.err = ""
              /\ SameRecord(back.obj, obj)
              /\ serialize(back.obj, store.object_count_in_store,
                           store.store_encryption_key_slot) = bytes

\* The chunk at position pos of a chain built for payload holds zeros after
\* the bytes of the payload that fall to it.
PaddingIsZero(built, name, payload, pos) ==
    LET size == built.store.object_size_in_store
        start == IF pos = 0 THEN 0
                 ELSE get_payload_capacity(size, name)
                      + (pos - 1) * get_payload_capacity(size, <<>>)
        capacity == IF pos = 0 THEN get_payload_capacity(size, name)
                    ELSE get_payload_capacity(size, <<>>)
        logical == IF Len(payload) - start > capacity THEN capacity
                   ELSE IF Len(payload) < start THEN 0
                   ELSE Len(payload) - start
        chunk == built.store.objects[built.indexes[pos + 1]].chunk_payload
    IN  /\ Len(chunk) = capacity
        /\ \A k \in (logical + 1) .. capacity : chunk[k] = 0

\* The records the store of an operation holds: those loaded, those left by
\* sanitize, and for store_blob those committed before the sync.
HeldRecords(ls, built) ==
    Range(ls.loaded) \cup Range(ls.store.objects)
    \cup (IF built.ok THEN Range(built.store.objects) ELSE {})

\* C23: every record the store of an operation holds (free, body, head)
\* round-trips through serialize and from_serialization, bytes and fields,
\* and the chunks store_blob builds are padded with zeros.
C23_RecordRoundTrip ==
    [][\A ls \in { load_and_sanitize(device) } :
         (~is_ejected /\ ls.raised = "") =>
           \A mtime \in Times :
             \A built \in { built_store(ls, last'.name, last'.payload, mtime) } :
               /\ \A obj \in HeldRecords(ls, built) : RoundTrips(obj, ls.store)
               /\ (last'.op = "store" /\ built.ok) =>
                    \A pos \in 0 .. (Len(built.indexes) - 1) :
                      PaddingIsZero(built, last'.name, last'.payload, pos)]_vars

\* The smallest k >= 1 with
\* payload_capacity(name) + (k - 1) * payload_capacity('') >= length.
SmallestK(size, name, length) ==
    LET covers(k) == get_payload_capacity(size, name)
                     + (k - 1) * get_payload_capacity(size, <<>>) >= length
    IN  CHOOSE k \in 1 .. (length + 1) :
            covers(k) /\ \A j \in 1 .. (k - 1) : ~covers(j)

\* Payload lengths at the edges of one, two and three records for a name.
EdgeLengths(size, name) ==
    LET head == get_payload_capacity(size, name)
        body == get_payload_capacity(size, <<>>)
    IN  { 0, head, head + 1, head + body, head + body + 1 }

\* C24: store_blob allocates the smallest number k of records whose
\* capacities cover the payload: one for payload_capacity(name) bytes, two
\* for one byte more; the blob it has written occupies exactly k records.
C24_SmallestChunkCount ==
    \A ls \in { load_and_sanitize(device) } :
        /\ (last.op = "store" /\ last.ret = "True") =>
             /\ Len(last.io.chain)
                  = SmallestK(ObjectSize, last.name, Len(last.payload))
             /\ ls.store.objects[last.io.chain[1]].object_age # 0
             /\ ls.store.objects[last.io.chain[1]].chunk_pos_in_blob = 0
             /\ chunk_count(ls.store.objects, last.io.chain[1])
                  = Len(last.io.chain)
        /\ ls.raised = "" =>
             \A name \in Names :
               \A length \in EdgeLengths(ObjectSize, name) :
                 \A built \in { built_store(ls, name, Zero(length), 1) } :
                   built.ok => Len(built.indexes)
                                 = SmallestK(ObjectSize, name, length)

\* store_blob has stored a payload one byte longer than its head can hold,
\* in two records, and an empty store takes three records for a payload one
\* byte longer than a head and a body can hold.
C24_Witness ==
    /\ last.op = "store"
    /\ last.ret = "True"
    /\ Len(last.payload) = get_payload_capacity(ObjectSize, last.name) + 1
    /\ Len(last.io.chain) = 2
    /\ \E name \in Names :
         Len(built_store(load_and_sanitize(Formatted), name,
                         Zero(get_payload_capacity(ObjectSize, name)
                              + get_payload_capacity(ObjectSize, <<>>) + 1),
                         1).indexes) = 3

\* The sanitized store holds only the one-record blob "a" -> b"hello".
OnlyHello(ls) ==
    /\ ls.raised = ""
    /\ Len(list_blobs(ls).ret) = 1
    /\ list_blobs(ls).ret[1][1] = <<97>>
    /\ list_blobs(ls).ret[1][5] = 1
    /\ fetch_blob(ls, <<97>>).ret = [found |-> TRUE, payload |-> Hello]

\* store_blob("a", b"x" * n) has just run on a store of 5 objects of 64
\* bytes that held only "a" -> b"hello".
StoredOverHello(n) ==
    /\ last'.op = "store"
    /\ last'.name = <<97>>
    /\ last'.payload = Xs(n)
    /\ OnlyHello(load_and_sanitize(device))

\* C25 as stated: in the store of 5 objects of 64 bytes that holds only
\* "a" -> b"hello", store_blob("a", 200 bytes) succeeds and the new blob
\* spans exactly 4 chunks.
C25_TwoHundredBytesInFourChunks ==
    [][StoredOverHello(200) =>
          /\ last'.ret = "True"
          /\ Len(last'.io.chain) = 4]_vars

\* C25 amended: there store_blob("a", 200 bytes) returns False and writes
\* nothing, the payload needing 5 records (40 + 3 * 53 = 199) with 4 free;
\* store_blob("a", 199 bytes) succeeds and its blob spans exactly 4 chunks.
C25_TwoHundredBytesDoNotFit ==
    [][/\ StoredOverHello(200) =>
            /\ SmallestK(ExampleSize, <<97>>, 200) = 5
            /\ last'.ret = "False"
            /\ last'.io.order = <<>>
            /\ device' = device
       /\ StoredOverHello(199) =>
            /\ last'.ret = "True"
            /\ Len(last'.io.chain) = 4
            /\ \A ls \in { load_and_sanitize(device') } :
                 /\ list_blobs(ls).ret[1][5] = 4
                 /\ fetch_blob(ls, <<97>>).ret
                      = [found |-> TRUE, payload |-> Xs(199)]]_vars

\* store_blob("a", 200 bytes) has run on the store that held only
\* "a" -> b"hello", and has returned False.
C25_Witness ==
    /\ last.op = "store"
    /\ last.name = <<97>>
    /\ last.payload = Xs(200)
    /\ last.before[<<97>>] = [found |-> TRUE, payload |-> Hello]
    /\ last.names_before = { <<97>> }
    /\ last.ret = "False"
    /\ OnlyHello(load_and_sanitize(device))

\* What list_blobs is to report of the blob of live head h.
EntryOf(store, h) ==
    << store.objects[h].blob_name,
       store.objects[h].blob_unencrypted_size,
       store.objects[h].blob_encryption_key_slot # 0,
       store.objects[h].blob_modification_time,
       Cardinality(chain_indexes(store.objects, h)) >>

\* The entries are those of the live heads of the store, one for one, and
\* follow each other by name.
ListsTheLiveBlobs(entries, store) ==
    /\ Len(entries) = Cardinality(LiveHeads(store))
    /\ \A h \in LiveHeads(store) :
          Cardinality({ k \in 1 .. Len(entries) :
                          entries[k] = EntryOf(store, h) })
            = Cardinality({ g \in LiveHeads(store) :
                              EntryOf(store, g) = EntryOf(store, h) })
    /\ \A k \in 1 .. (Len(entries) - 1) :
          name_le(entries[k][1], entries[k + 1][1])

\* C26: list_blobs returns exactly one entry per live blob of the sanitized
\* store, ordered by name, each entry carrying the blob's name, its
\* unencrypted size, whether it is encrypted, its modification time and a
\* chunk_count equal to the number of records of its chain.
C26_ListOnePerLiveBlob ==
    \A ls \in { load_and_sanitize(device) } :
        /\ ls.raised = ""
        /\ ListsTheLiveBlobs(list_blobs(ls).ret, ls.store)
        /\ last.op = "list" =>
              /\ last.raised = ""
              /\ ListsTheLiveBlobs(last.listed, ls.store)

\* list_blobs has listed two blobs, one encrypted and one not, one of them
\* of several chunks.
C26_Witness ==
    /\ last.op = "list"
    /\ Len(last.listed) = 2
    /\ \E k \in 1 .. 2 : last.listed[k][3]
    /\ \E k \in 1 .. 2 : ~last.listed[k][3]
    /\ \E k \in 1 .. 2 : last.listed[k][5] > 1
    /\ last.listed[1][1] # last.listed[2][1]

\* A name has a blob on a device.
HasBlob(dev, name) == find_blob(load_and_sanitize(dev).store, name) # Absent

\* The head of the blob a name has on a device.
HeadOn(dev, name) ==
    LET ls == load_and_sanitize(dev)
    IN  ls.store.objects[find_blob(ls.store, name)]

\* The envelope the head describes: blob_size = 65 + 16 + |C| with C of
\* whole AES blocks holding p, blob_unencrypted_size = |p|, the key slot
\* that of the store.
HeadOfEnvelope(head, p, slot) ==
    /\ head.blob_size
         = 65 + 16 + 16 * ((Len(p) \div 16) + 1)
    /\ head.blob_unencrypted_size = Len(p)
    /\ head.blob_encryption_key_slot = slot
    /\ slot # 0

\* C27: store(name, P, encrypted=true) followed by fetch(name) with the
\* device key of the store's key slot returns exactly P, while the head
\* records blob_size = 65 + 16 + |C|, blob_unencrypted_size = |P| and
\* blob_encryption_key_slot = the store's key slot.
C27_EncryptedRoundTrip ==
    [][/\ (last'.op = "store_encrypted" /\ last'.ret = "True") =>
            /\ HasBlob(device', last'.name)
            /\ HeadOfEnvelope(HeadOn(device', last'.name), last'.payload,
                               ExampleKeySlot)
            /\ fetch_blob_pin(load_and_sanitize(device'), last'.name, Pin)
                 = [raised |-> "",
                    ret |-> [found |-> TRUE, payload |-> last'.payload]]
       /\ (/\ last.op = "store_encrypted"
           /\ last.ret = "True"
           /\ last'.op = "fetch"
           /\ last'.name = last.name) =>
            /\ last'.raised = ""
            /\ last'.fetched = [found |-> TRUE, payload |-> last.payload]
            /\ HasBlob(device', last'.name)
            /\ HeadOfEnvelope(HeadOn(device', last'.name), last.payload,
                               ExampleKeySlot)]_vars

\* b"secret" has been stored encrypted and fetched back with the PIN from
\* a chain of three records holding an envelope of 97 bytes.
C27_Witness ==
    /\ last.op = "fetch"
    /\ last.raised = ""
    /\ last.fetched = [found |-> TRUE, payload |-> Secret]
    /\ HasBlob(device, last.name)
    /\ HeadOn(device, last.name).blob_encryption_key_slot = ExampleKeySlot
    /\ HeadOn(device, last.name).blob_size = 97
    /\ \E k \in 1 .. Len(list_blobs(load_and_sanitize(device)).ret) :
          list_blobs(load_and_sanitize(device)).ret[k]
            = << last.name, 6, TRUE, 1, 3 >>

\* The chain of a blob of that name and size as store_blob is to build it
\* in the objects at these indexes, s being the store_age at load.
WellFormedChain(objects, indexes, s, name, size) ==
    /\ indexes # <<>>
    /\ \A p \in 0 .. (Len(indexes) - 1) :
          /\ objects[indexes[p + 1]].object_age = s + 1 + p
          /\ objects[indexes[p + 1]].chunk_pos_in_blob = p
          /\ objects[indexes[p + 1]].next_chunk_index_in_store
               = IF p = Len(indexes) - 1 THEN indexes[p + 1]
                 ELSE indexes[p + 2]
    /\ objects[indexes[1]].blob_size = size
    /\ objects[indexes[1]].blob_name = name

\* C28: the chain built by store_blob for a payload needing k records is
\* well formed in memory before sync: the chunk at position p has
\* object_age = s + 1 + p (s the store_age at load), chunk_pos_in_blob = p and
\* next_chunk_index_in_store the index allocated for position p + 1, the
\* tail pointing to itself; the head carries blob_size = len(stored payload)
\* and the name.  The device holds the same chain once it is synced.
C28_ChainBuiltInMemory ==
    [][/\ last'.op = "store" =>
            \A ls \in { load_and_sanitize(device) } :
              \A built \in { built_store(ls, last'.name, last'.payload, 1) } :
                /\ built.ok = (last'.ret # "False")
                /\ built.ok =>
                     /\ Len(built.indexes)
                          = SmallestK(ExampleSize, last'.name,
                                      Len(last'.payload))
                     /\ WellFormedChain(built.store.objects, built.indexes,
                                        from_piv_device(device).store_age,
                                        last'.name, Len(last'.payload))
                     /\ last'.ret = "True" => last'.io.chain = built.indexes
       /\ (last'.op \in { "store", "store_encrypted" } /\ last'.ret = "True") =>
            WellFormedChain(from_piv_device(device').objects, last'.io.chain,
                            from_piv_device(device).store_age, last'.name,
                            HeadOn(device', last'.name).blob_size)]_vars

\* store_blob has built a chain of four records or more in a store that
\* already held a blob.
C28_Witness ==
    /\ last.op = "store"
    /\ last.ret = "True"
    /\ Len(last.io.chain) >= 4
    /\ last.names_before # {}
    /\ from_piv_device(device).store_age > Len(last.io.chain)

\* The free objects of a store: object_age = 0.
FreeIn(store) ==
    { i \in 0 .. (store.object_count_in_store - 1) :
        store.objects[i].object_age = 0 }

\* The records of the chains of the live heads of a store.
InSurvivingChains(store) ==
    UNION { chain_indexes(store.objects, h) : h \in LiveHeads(store) }

\* Each index is the lowest one free in the store once the indexes before
\* it are taken.
LowestFreeEach(store, indexes) ==
    \A p \in 1 .. Len(indexes) :
        /\ indexes[p] \in FreeIn(store)
        /\ \A i \in FreeIn(store) :
              i < indexes[p] => \E q \in 1 .. (p - 1) : indexes[q] = i

\* The length of the payload store_blob stores, the envelope when encrypted.
StoredLength(op, payload) ==
    IF op = "store" THEN Len(payload)
    ELSE 65 + 16 + 16 * ((Len(payload) \div 16) + 1)

\* C29: within one operation each allocation call returns the lowest-indexed
\* record that is free (age 0) in the sanitized in-memory store and reserves
\* it, so successive calls return pairwise distinct, strictly increasing
\* indices, never an index of a record of a surviving chain; when no free
\* record remains the call signals store-full (store_blob returns False and
\* writes nothing).
C29_AllocatesLowestFree ==
    [][last'.op \in { "store", "store_encrypted" } =>
         \A ls \in { load_and_sanitize(device) } :
           \A k \in { SmallestK(ls.store.object_size_in_store, last'.name,
                                StoredLength(last'.op, last'.payload)) } :
             /\ last'.ret = "True" =>
                  /\ Len(last'.io.chain) = k
                  /\ LowestFreeEach(ls.store, last'.io.chain)
                  /\ \A p \in 1 .. (k - 1) :
                        last'.io.chain[p] < last'.io.chain[p + 1]
                  /\ Range(last'.io.chain) \cap InSurvivingChains(ls.store)
                       = {}
             /\ (last'.ret = "False") = (Cardinality(FreeIn(ls.store)) < k)
             /\ last'.ret = "False" => device' = device
             /\ last'.op = "store" =>
                  \A built \in { built_store(ls, last'.name, last'.payload,
                                              1) } :
                    /\ LowestFreeEach(ls.store, built.indexes)
                    /\ built.ok = (Len(built.indexes) = k)
                    /\ ~built.ok =>
                         Len(built.indexes) = Cardinality(FreeIn(ls.store))]_vars

\* store_blob has allocated indexes that step over the records of a
\* surviving chain.
C29_Witness ==
    /\ last.op \in { "store", "store_encrypted" }
    /\ last.ret = "True"
    /\ \E p \in 1 .. (Len(last.io.chain) - 1) :
          last.io.chain[p + 1] > last.io.chain[p] + 1
    /\ last.names_before # {}

\* C30: payload_capacity equals object_size - 11 for a body chunk (name
\* omitted or empty) and object_size - 23 - len(utf8(name)) for a head chunk
\* carrying name, for every object_size in 10..3052 and every name of 1..255
\* UTF-8 bytes; a store is accepted only when the resulting head capacity is
\* non-negative.
C30_PayloadCapacity ==
    /\ last.size \in 10 .. 3052
    /\ get_payload_capacity(last.size, <<>>) = last.size - 11
    /\ last.op = "format" =>
          \A n \in 1 .. 255 :
              get_payload_capacity(last.size, NameOf(n)) = last.size - 23 - n
    /\ last.op # "store_named" => last.body = last.size - 11
    /\ last.op \in { "capacity", "store" } =>
          last.head = last.size - 23 - Len(last.name)
    /\ (last.op = "store" /\ last.ret = "True") =>
          /\ last.size - 23 - Len(last.name) >= 0
          /\ fetch_blob(load_and_sanitize(device), last.name)
               = [raised |-> "",
                  ret |-> [found |-> TRUE, payload |-> last.payload]]
    /\ (last.op = "store" /\ last.size - 23 - Len(last.name) < 0) =>
          /\ last.ret # "True"
          /\ device = FormattedAt(last.size)

\* A store has been accepted under a name that leaves the head no payload
\* byte at all (capacity 0), the payload going to the body chunks.
C30_Witness ==
    /\ last.op = "store"
    /\ last.ret = "True"
    /\ last.head = 0
    /\ Len(last.name) = 255
    /\ last.payload = <<1, 2, 3>>

\* Every object of a device is size bytes long.
AllOfSize(dev, size) == \A i \in DOMAIN dev : Len(dev[i]) = size

\* The serialization of a head chunk under a name of n bytes and of the body
\* chunk after it, in a store of objects of that size.
HeadRecord(size, n) ==
    serialize(HeadObject(size, 1, 1, 1, 1, 0, 1, NameOf(n), <<>>, TRUE),
              ObjectCount, KeySlot)
BodyRecord(size) ==
    serialize(BodyObject(size, 2, 1, 1, <<1>>, TRUE), ObjectCount, KeySlot)

\* C31: every object the store writes to the device is exactly object_size
\* bytes long, whatever the record's state (freshly formatted free record,
\* record reset by remove or sanitize, body chunk, head chunk with any valid
\* name length), so a later load never rejects a record for its length.
C31_ObjectsHaveObjectSize ==
    /\ AllOfSize(device, ObjectSize)
    /\ \A ls \in { load_and_sanitize(device) } :
          /\ ls.raised = ""
          /\ ls.store.object_size_in_store = ObjectSize
          /\ AllOfSize([i \in Indexes |->
                           serialize(ls.store.objects[i], ObjectCount,
                                     KeySlot)],
                       ObjectSize)
    /\ \A n \in 1 .. (ObjectSize - BLOB_NAME_O) :
          Len(HeadRecord(ObjectSize, n)) = ObjectSize
    /\ Len(BodyRecord(ObjectSize)) = ObjectSize

\* remove_blob has reset a record on a device that also holds a chain of a
\* head and a body chunk.
C31_Witness ==
    /\ last.op = "remove"
    /\ last.ret = "True"
    /\ last.io.order # <<>>
    /\ \E i \in Indexes : device[i] = Formatted[i]
    /\ \A ls \in { load_and_sanitize(device) } :
          \E h \in LiveHeads(ls.store) :
              Cardinality(chain_indexes(ls.store.objects, h)) = 2

\* The number of UTF-8 bytes of a str given as its code points.
Utf8Length(chars) ==
    Len(chars)
    + Cardinality({ i \in 1 .. Len(chars) : chars[i] >= 128 })
    + Cardinality({ i \in 1 .. Len(chars) : chars[i] >= 2048 })
    + Cardinality({ i \in 1 .. Len(chars) : chars[i] >= 65536 })

\* C32: store_blob with a name whose UTF-8 encoding is 0 bytes or longer
\* than 255 bytes is rejected with an error before any write_object is
\* issued, so the device is unchanged.
C32_BadNameRejected ==
    (/\ last.op = "store_named"
     /\ Utf8Length(last.chars) = 0 \/ Utf8Length(last.chars) > 255) =>
        /\ last.ret = ""
        /\ last.raised \in { "ValueError", "StringTooLargeError" }
        /\ last.written = 0
        /\ device = FormattedAt(last.size)

\* store_blob has rejected a name of 128 characters that encodes to 256
\* bytes, in a store whose objects could hold a name of 255 bytes.
C32_Witness ==
    /\ last.op = "store_named"
    /\ Len(last.chars) = 128
    /\ Utf8Length(last.chars) = 256
    /\ last.raised = "StringTooLargeError"
    /\ last.size - 23 - 255 > 0

\* C33: after a remove_blob(name) that completes without interruption and
\* returns True, the device holds no chain-valid head named name, so the next
\* fetch_blob(name) returns not-found; this in every state reachable through
\* any earlier sequence of completed or interrupted store_blob / remove_blob
\* operations, an older same-named chain still on the device included.
C33_RemovedNameNotFound ==
    [][(last'.op = "remove" /\ last'.ret = "True") =>
          \A ls \in { load_and_sanitize(device') } :
              /\ ls.raised = ""
              /\ \A h \in LiveHeads(ls.store) :
                    ls.store.objects[h].blob_name # last'.name
              /\ fetch_blob(ls, last'.name) = [raised |-> "", ret |-> None]]_vars

\* C34: isolation between names.  A store_blob(n, ...) or remove_blob(n),
\* whether it completes, returns store-full, or is interrupted at any point
\* of its sync, never changes the result of fetch_blob(m) for any other name
\* m # n.
C34_OtherNamesUntouched ==
    last.op \in { "store", "remove" } =>
        \A ls \in { load_and_sanitize(device) } :
            \A m \in Names \ { last.name } :
                fetch_blob(ls, m).ret = last.before[m]

\* A store_blob of one name has been interrupted in the middle of its sync
\* while the other name had a non-empty blob, which is still fetched.
C34_Witness ==
    /\ last.op = "store"
    /\ last.raised = "EjectionError"
    /\ last.written > 0
    /\ \E m \in Names \ { last.name } :
          /\ last.before[m].found
          /\ Len(last.before[m].payload) > 0
          /\ fetch_blob(load_and_sanitize(device), m).ret = last.before[m]

\* The object_age of every record of the device, as from_piv_device
\* decodes them.
AgesOn(dev) ==
    LET objects == from_piv_device(dev).objects
    IN  [i \in DOMAIN objects |-> objects[i].object_age]

\* No two non-free records of the device have the same object_age.
NoSharedAge(dev) ==
    \A ages \in { AgesOn(dev) } :
        \A i, j \in DOMAIN ages :
            (i # j /\ ages[i] # 0) => ages[i] # ages[j]

\* C35: every age store_blob assigns (the age of every non-free record it
\* writes) is strictly greater than the age of every record that was on the
\* device when the operation loaded it; and in every device state reached
\* through completed or interrupted operations no two non-free records
\* have the same object_age.
C35_AgesAreFresh ==
    [][/\ last'.op = "store" =>
            \A old \in { AgesOn(device) }, new \in { AgesOn(device') } :
                \A i \in DOMAIN new :
                    (device'[i] # device[i] /\ new[i] # 0) =>
                        \A j \in DOMAIN old : old[j] < new[i]
       /\ NoSharedAge(device')]_vars

\* An interrupted store_blob has left one record of a two-chunk chain on a
\* device that already held a blob, and the ages on the device are distinct.
C35_Witness ==
    /\ Interrupted("store")
    /\ last.written = 1
    /\ \E m \in Names \ { last.name } : last.before[m].found
    /\ \A ages \in { AgesOn(device) } :
          /\ Cardinality({ i \in DOMAIN ages : ages[i] # 0 }) >= 2
          /\ NoSharedAge(device)

\* The records sanitize has reset in memory on the store loaded from dev.
DirtiedBySanitize(dev) == dirty_indexes(load_and_sanitize(dev).store)

\* C36: fetch_blob, list_blobs, and remove_blob of a name that no blob has
\* issue no write_object: the device is left as it was, even when sanitize
\* has reset (dirtied) records of the loaded store in memory.
C36_ReadersNeverWrite ==
    [][(\/ last'.op \in { "fetch", "list" }
        \/ last'.op = "remove" /\ last'.ret = "False") =>
            /\ last'.written = 0
            /\ device' = device]_vars

\* remove_blob has answered False on a device on which sanitize resets at
\* least one record in memory.
C36_Witness ==
    /\ last.op = "remove"
    /\ last.ret = "False"
    /\ last.written = 0
    /\ DirtiedBySanitize(device) # {}

\* The walk of the first pass following next_chunk_index_in_store without
\* comparing ages or positions.
RECURSIVE pass1_hops_as_unchecked(_, _, _, _, _, _)
pass1_hops_as_unchecked(objects, count, cur, age, pos_in_blob, fuel) ==
    LET next_index == objects[cur].next_chunk_index_in_store
    IN  IF next_index = cur THEN 0
        ELSE IF ~(0 <= next_index /\ next_index < count) THEN 0
        ELSE IF fuel = 0 THEN 1
        ELSE 1 + pass1_hops_as_unchecked(objects, count, next_index, age + 1,
                                         pos_in_blob + 1, fuel - 1)

\* The number of hops ("object = self.objects[next_index]") the while loop
\* of sanitize's first pass makes from object cur of the chain of one head.
\* The count is cut after fuel sound hops, so that a walk that never ends
\* counts fuel + 1 hops.
RECURSIVE pass1_hops(_, _, _, _, _, _)
pass1_hops(objects, count, cur, age, pos_in_blob, fuel) ==
    LET next_index == objects[cur].next_chunk_index_in_store
    IN  IF next_index = cur THEN 0
        ELSE IF ~(0 <= next_index /\ next_index < count) THEN 0
        ELSE IF objects[next_index].object_age # age + 1
                \/ objects[next_index].chunk_pos_in_blob # pos_in_blob + 1
             THEN 1
        ELSE IF fuel = 0 THEN 1
        ELSE 1 + pass1_hops(objects, count, next_index, age + 1,
                            pos_in_blob + 1, fuel - 1)

\* The number of hops the while loop of sanitize's third pass makes from
\* object cur, cut in the same way.
RECURSIVE pass3_hops(_, _, _)
pass3_hops(objects, cur, fuel) ==
    LET next_index == objects[cur].next_chunk_index_in_store
    IN  IF next_index = cur THEN 0
        ELSE IF fuel = 0 THEN 1
        ELSE 1 + pass3_hops(objects, next_index, fuel - 1)

\* The heads of a list of objects: what the three passes iterate on.
HeadsOf(objects) ==
    { i \in DOMAIN objects :
        objects[i].object_age # 0 /\ objects[i].chunk_pos_in_blob = 0 }

\* The objects the second pass hands to the third, from the loaded ones.
AfterPass2(loaded) ==
    remove_older_blobs(
        remove_corrupt_heads(loaded, ObjectCount, ObjectSize, 0),
        ObjectCount, ObjectSize, 0, <<>>)

\* C37: sanitize terminates on every loaded store, whatever its
\* next_chunk_index_in_store pointers (cycles, pointers into another
\* chain): from every head the walk of the first pass makes at most N hops
\* (N = object_count_in_store); every head the third pass walks from has a
\* chain the first pass found sound, and its walk ends, in fewer than N
\* hops.
C37_SanitizeWalksEnd ==
    last.op = "sanitize" =>
        /\ \A h \in HeadsOf(last.loaded) :
              pass1_hops(last.loaded, ObjectCount, h,
                         last.loaded[h].object_age, 0, ObjectCount + 1)
                  <= ObjectCount
        /\ \A pass2 \in { AfterPass2(last.loaded) } :
              ~pass2.raised =>
                  \A h \in HeadsOf(pass2.objects) :
                      /\ chain_is_sound(last.loaded, ObjectCount, h,
                                        last.loaded[h].object_age, 0)
                      /\ pass3_hops(pass2.objects, h, ObjectCount + 1)
                             < ObjectCount

\* sanitize has run to its end on a store where a head and a body chunk of
\* the right age and position point to each other.
C37_Witness ==
    /\ last.op = "sanitize"
    /\ last.raised = ""
    /\ \E h \in HeadsOf(last.loaded), b \in DOMAIN last.loaded :
          /\ b # h
          /\ last.loaded[h].next_chunk_index_in_store = b
          /\ last.loaded[b].next_chunk_index_in_store = h
          /\ last.loaded[b].object_age = last.loaded[h].object_age + 1
          /\ last.loaded[b].chunk_pos_in_blob = 1

\* The indices of a chain, head first, strictly increase.
IndicesIncrease(chain) ==
    \A p \in 1 .. (Len(chain) - 1) : chain[p] < chain[p + 1]

\* C38: in every chain store_blob creates the record indices strictly
\* increase from the head to the tail, and so do they along every sound
\* chain of every device state reached; the index-ordered sync of a
\* store_blob therefore writes the head of the new chain before any of its
\* body chunks.
C38_ChainIndicesIncrease ==
    /\ last.op = "store" =>
          /\ IndicesIncrease(last.io.chain)
          /\ \A b \in 2 .. Len(last.io.chain) :
                \A k \in WrittenAt(last.io.order, last.io.chain[b]) :
                    \E j \in WrittenAt(last.io.order, last.io.chain[1]) : j < k
    /\ \A loaded \in { from_piv_device(device) } :
          \A h \in ValidHeads(loaded) :
              IndicesIncrease(chain_seq(loaded.objects, h))

\* A completed store_blob has built a chain of two chunks around a record
\* that another blob occupies: its indices are 0 and 2.
C38_Witness ==
    /\ last.op = "store"
    /\ last.ret = "True"
    /\ last.io.chain = <<0, 2>>
    /\ \A loaded \in { from_piv_device(device) } :
          /\ 0 \in ValidHeads(loaded)
          /\ 1 \in ValidHeads(loaded)
          /\ chain_seq(loaded.objects, 0) = <<0, 2>>

====
